---- MODULE Spec2Model ----
(***************************************************************************)
(* A model of the maskingengine sanitization pipeline                      *)
(* (src/maskingengine/core and src/maskingengine/detectors).               *)
(*                                                                         *)
(* A Python str is a sequence of one-character strings; offsets are the    *)
(* 0-based offsets of the code.  A dict is a sequence of <<key, value>>    *)
(* pairs in insertion order.  NER scores and the confidence threshold are  *)
(* percentages (0..100).                                                   *)
(***************************************************************************)
EXTENDS Integers, Sequences, FiniteSets, TLC

VARIABLES
    pc,          \* position of the caller: "new", "given", "done", "failed", "rehydrated", "rehydrate_failed"
    content,     \* the text handed to sanitize
    ctype,       \* content_type argument of sanitize
    config,      \* the SanitizerConfig of the call
    ner,         \* what the external NER model does on this call
    out,         \* what sanitize returned or raised, with the values it computed on the way
    restored,    \* what rehydrate returned or raised
    calls,       \* number of sanitize calls made so far
    history,     \* placeholders synthesized by the earlier calls
    loads,       \* number of times the NER model has been loaded in the process
    workers      \* the sanitize calls of the concurrent workers, one record each

vars == <<pc, content, ctype, config, ner, out, restored, calls, history, loads, workers>>

(***************************************************************************)
(* Characters                                                              *)
(***************************************************************************)
LowerSeq == <<"a","b","c","d","e","f","g","h","i","j","k","l","m",
              "n","o","p","q","r","s","t","u","v","w","x","y","z">>
UpperSeq == <<"A","B","C","D","E","F","G","H","I","J","K","L","M",
              "N","O","P","Q","R","S","T","U","V","W","X","Y","Z">>
DigitSeq == <<"0","1","2","3","4","5","6","7","8","9">>

Range(s) == {s[i] : i \in DOMAIN s}

Lower == Range(LowerSeq)
Upper == Range(UpperSeq)
Letter == Lower \cup Upper
Digit == Range(DigitSeq)
NL == "\n"
Whitespace == {" ", NL, "\t"}

\* \w of the re module
WordCh == Letter \cup Digit \cup {"_"}

\* str.lower on one character
ToLower(c) == IF c \in Upper THEN LowerSeq[CHOOSE i \in DOMAIN UpperSeq : UpperSeq[i] = c] ELSE c

\* int(digit)
DigitVal(c) == (CHOOSE i \in DOMAIN DigitSeq : DigitSeq[i] = c) - 1

Min(a, b) == IF a < b THEN a ELSE b
Max(a, b) == IF a > b THEN a ELSE b

(***************************************************************************)
(* Python str operations                                                   *)
(***************************************************************************)
\* s[i], "" when i is outside the string
CharAt(s, i) == IF i >= 0 /\ i < Len(s) THEN s[i + 1] ELSE ""

\* s[i:j] for i, j >= 0
Slice(s, i, j) == SubSeq(s, Min(i, Len(s)) + 1, Min(j, Len(s)))

\* s[i:]
SliceFrom(s, i) == Slice(s, i, Len(s))

\* s[i:].startswith(p)
MatchAt(s, p, i) == i + Len(p) <= Len(s) /\ Slice(s, i, i + Len(p)) = p

StartsWith(s, p) == MatchAt(s, p, 0)
EndsWith(s, p) == Len(p) <= Len(s) /\ MatchAt(s, p, Len(s) - Len(p))

\* s.find(p, from)
Find(s, p, from) ==
    LET hits == {i \in from..(Len(s) - Len(p)) : MatchAt(s, p, i)}
    IN  IF hits = {} THEN -1 ELSE CHOOSE i \in hits : \A j \in hits : i <= j

Contains(s, p) == Find(s, p, 0) >= 0

\* s.replace(old, new), old not empty
RECURSIVE Replace(_, _, _)
Replace(s, old, new) ==
    LET i == Find(s, old, 0)
    IN  IF i < 0 THEN s
        ELSE Slice(s, 0, i) \o new \o Replace(SliceFrom(s, i + Len(old)), old, new)

\* s.strip()
RECURSIVE LStrip(_)
LStrip(s) == IF s # <<>> /\ Head(s) \in Whitespace THEN LStrip(Tail(s)) ELSE s
RECURSIVE RStrip(_)
RStrip(s) == IF s # <<>> /\ s[Len(s)] \in Whitespace THEN RStrip(SubSeq(s, 1, Len(s) - 1)) ELSE s
Strip(s) == LStrip(RStrip(s))

\* s.lower()
LowerStr(s) == [i \in DOMAIN s |-> ToLower(s[i])]

\* sep.join(parts)
RECURSIVE Join(_, _)
Join(sep, parts) ==
    IF parts = <<>> THEN <<>>
    ELSE IF Len(parts) = 1 THEN parts[1]
    ELSE parts[1] \o sep \o Join(sep, Tail(parts))

\* s.split(sep), sep not empty
RECURSIVE Split(_, _)
Split(s, sep) ==
    LET i == Find(s, sep, 0)
    IN  IF i < 0 THEN <<s>>
        ELSE <<Slice(s, 0, i)>> \o Split(SliceFrom(s, i + Len(sep)), sep)

\* sorted(seq, key): the stable sort of Python, Lt the strict order of the keys
StableSort(seq, Lt(_, _)) ==
    LET n == Len(seq)
        rank(i) == Cardinality({j \in 1..n : Lt(seq[j], seq[i])})
                   + Cardinality({j \in 1..(i - 1) : ~Lt(seq[j], seq[i]) /\ ~Lt(seq[i], seq[j])})
    IN  [r \in 1..n |-> seq[CHOOSE i \in 1..n : rank(i) = r - 1]]

\* s.upper()
ToUpper(c) == IF c \in Lower THEN UpperSeq[CHOOSE i \in DOMAIN LowerSeq : LowerSeq[i] = c] ELSE c
UpperStr(s) == [i \in DOMAIN s |-> ToUpper(s[i])]

(***************************************************************************)
(* detectors/regex_detector.py                                             *)
(*                                                                         *)
(* The texts of this model contain no ':' and no digit next to a '.', so   *)
(* the IPV4 and IPV6 patterns match nowhere, and every run of digits is    *)
(* either longer than 15 digits or shorter than 5, which is_valid_number   *)
(* of phonenumbers rejects for every region: the PHONE branch adds nothing.*)
(***************************************************************************)
\* \b at offset i
Boundary(s, i) == (CharAt(s, i - 1) \in WordCh) # (CharAt(s, i) \in WordCh)

\* end of the longest run of characters of class C that starts at i
RunEnd(s, i, C) ==
    CHOOSE j \in i..Max(i, Len(s)) :
        /\ CharAt(s, j) \notin C
        /\ \A k \in i..(j - 1) : CharAt(s, k) \in C

EmailLocalCh == Letter \cup Digit \cup {".", "_", "%", "+", "-"}
EmailDomainCh == Letter \cup Digit \cup {".", "-"}
EmailTldCh == Letter \cup {"|"}

\* patterns["EMAIL"] tried at offset i: the end of the match, -1 when there is none.
\* [local]+ is greedy and cannot give back (the next character must be '@');
\* [domain]+ is greedy and backtracks to the last '.' after which {2,} letters
\* end on a \b, the longest such ending first.
EMAIL_match(s, i) ==
    LET k == RunEnd(s, i, EmailLocalCh)
        e == RunEnd(s, k + 1, EmailDomainCh)
        ends(d) == {t \in (d + 3)..RunEnd(s, d + 1, EmailTldCh) : Boundary(s, t)}
        dots == {d \in (k + 2)..(e - 1) : CharAt(s, d) = "." /\ ends(d) # {}}
    IN  IF ~Boundary(s, i) \/ k = i \/ CharAt(s, k) # "@" \/ dots = {} THEN -1
        ELSE LET d == CHOOSE x \in dots : \A y \in dots : y <= x
             IN  CHOOSE t \in ends(d) : \A u \in ends(d) : u <= t

AllDigits(s, i, n) == \A j \in i..(i + n - 1) : CharAt(s, j) \in Digit

\* patterns["CREDIT_CARD"] tried at offset i: the alternatives in their order,
\* each as <<its prefix matches, its length>>
CREDIT_CARD_match(s, i) ==
    LET c(j) == CharAt(s, i + j)
        alts == <<
            <<c(0) = "4", 16>>,                                         \* Visa, with the optional 3 digits
            <<c(0) = "4", 13>>,                                         \* Visa
            <<c(0) = "5" /\ c(1) \in {"1","2","3","4","5"}, 16>>,       \* MasterCard
            <<c(0) = "3" /\ c(1) \in {"4","7"}, 15>>,                   \* American Express
            <<c(0) = "3" /\ (   (c(1) = "0" /\ c(2) \in {"0","1","2","3","4","5"})
                             \/ c(1) \in {"6","8"}), 14>>,             \* Diners Club
            <<c(0) = "6" /\ (   (c(1) = "0" /\ c(2) = "1" /\ c(3) = "1")
                             \/ c(1) = "5"), 16>>,                     \* Discover
            <<c(0) = "2" /\ c(1) = "1" /\ c(2) = "3" /\ c(3) = "1", 15>>, \* JCB
            <<c(0) = "1" /\ c(1) = "8" /\ c(2) = "0" /\ c(3) = "0", 15>>,
            <<c(0) = "3" /\ c(1) = "5", 16>> >>
        ok(a) == alts[a][1] /\ AllDigits(s, i, alts[a][2]) /\ Boundary(s, i + alts[a][2])
        oks == {a \in DOMAIN alts : ok(a)}
    IN  IF ~Boundary(s, i) \/ oks = {} THEN -1
        ELSE i + alts[CHOOSE a \in oks : \A b \in oks : a <= b][2]

\* pattern.finditer(text): the non-overlapping matches, leftmost first, as <<start, end>>
FindIter(s, MatchEnd(_, _)) ==
    LET n == Len(s)
        from[pos \in 0..n] ==
            LET starts == {i \in pos..(n - 1) : MatchEnd(s, i) >= 0}
            IN  IF starts = {} THEN <<>>
                ELSE LET i == CHOOSE x \in starts : \A y \in starts : x <= y
                     IN  <<(<<i, MatchEnd(s, i)>>)>> \o from[MatchEnd(s, i)]
    IN  from[0]

\* re.sub(r'\D', '', s)
DigitsOnly(s) == SelectSeq(s, LAMBDA ch : ch \in Digit)

\* reversed(s)
Reverse(s) == [i \in DOMAIN s |-> s[Len(s) + 1 - i]]

RECURSIVE SumSeq(_)
SumSeq(q) == IF q = <<>> THEN 0 ELSE Head(q) + SumSeq(Tail(q))

\* a validator that checks the length of the number and not its checksum
_validate_credit_card_length_only(card_number) == Len(DigitsOnly(card_number)) >= 13

\* RegexDetector._validate_credit_card: the Luhn checksum
_validate_credit_card(card_number) ==
    LET digits == DigitsOnly(card_number)
        reverse_digits == Reverse(digits)
        term(i) == LET n == DigitVal(reverse_digits[i + 1])
                   IN  IF i % 2 = 1
                       THEN (IF 2 * n > 9 THEN 2 * n - 9 ELSE 2 * n)
                       ELSE n
        total == SumSeq([j \in DOMAIN reverse_digits |-> term(j - 1)])
    IN  IF digits = <<>> \/ Len(digits) < 13 THEN FALSE
        ELSE total % 10 = 0

T_EMAIL == <<"E","M","A","I","L">>
T_CREDIT_CARD == <<"C","R","E","D","I","T","_","C","A","R","D">>

\* RegexDetector._deduplicate_detections
_deduplicate_detections(detections) ==
    LET sorted_detections ==
            StableSort(detections,
                LAMBDA x, y : \/ x.start < y.start
                              \/ x.start = y.start /\ (x.end - x.start) > (y.end - y.start))
        keep[n \in 0..Len(sorted_detections)] ==
            \* <<result, last_end>> after the first n detections
            IF n = 0 THEN <<(<<>>), -1>>
            ELSE LET prev == keep[n - 1]
                     detection == sorted_detections[n]
                 IN  IF detection.start >= prev[2]
                     THEN <<Append(prev[1], detection), detection.end>>
                     ELSE prev
    IN  keep[Len(sorted_detections)][1]

\* RegexDetector.detect
RegexDetector_detect(text) ==
    LET tuple(type, m) == [type |-> type, text |-> Slice(text, m[1], m[2]),
                           start |-> m[1], end |-> m[2]]
        emails == FindIter(text, EMAIL_match)
        cards == SelectSeq(FindIter(text, CREDIT_CARD_match),
                           LAMBDA m : _validate_credit_card(Slice(text, m[1], m[2])))
        detections == [i \in DOMAIN emails |-> tuple(T_EMAIL, emails[i])]
                      \o [i \in DOMAIN cards |-> tuple(T_CREDIT_CARD, cards[i])]
    IN  _deduplicate_detections(detections)

(***************************************************************************)
(* detectors/ner_detector.py                                               *)
(*                                                                         *)
(* The transformers pipeline is an external collaborator.  In the model it *)
(* tags the capitalised words of the text it is given, in order of         *)
(* appearance: ner.labels[k] is what it says about the k-th of them, "O"   *)
(* (not an entity) or a pair <<entity_group, score>>; ner.fails says that  *)
(* loading or calling the model raises.                                    *)
(***************************************************************************)
G_PER == <<"P","E","R">>
G_LOC == <<"L","O","C">>
G_ORG == <<"O","R","G">>
G_MISC == <<"M","I","S","C">>
T_PERSON == <<"P","E","R","S","O","N">>
T_LOCATION == <<"L","O","C","A","T","I","O","N">>
T_ORGANIZATION == <<"O","R","G","A","N","I","Z","A","T","I","O","N">>

\* NERDetector.DETECTED_ENTITIES
DETECTED_ENTITIES == <<G_PER, T_PERSON, G_LOC, T_LOCATION, G_ORG, T_ORGANIZATION>>

\* the capitalised words of the text, as <<start, end>>, in order
NameTokens(text) ==
    LET n == Len(text)
        from[pos \in 0..n] ==
            LET starts == {i \in pos..(n - 1) :
                              CharAt(text, i) \in Upper /\ CharAt(text, i - 1) \notin Letter}
            IN  IF starts = {} THEN <<>>
                ELSE LET i == CHOOSE x \in starts : \A y \in starts : x <= y
                         j == RunEnd(text, i, Letter)
                     IN  <<(<<i, j>>)>> \o from[j]
    IN  from[0]

\* self.pipeline(text): the entities the model returns, aggregation_strategy="simple"
NerPipeline(nerm, text) ==
    LET toks == NameTokens(text)
        tagged == {k \in DOMAIN toks : k <= Len(nerm.labels) /\ nerm.labels[k] # "O"}
        entity(k) == [entity_group |-> nerm.labels[k][1],
                      word |-> Slice(text, toks[k][1], toks[k][2]),
                      start |-> toks[k][1], end |-> toks[k][2],
                      score |-> nerm.labels[k][2]]
        all == [k \in DOMAIN toks |-> IF k \in tagged THEN <<entity(k)>> ELSE <<>>]
        flat[k \in 0..Len(toks)] == IF k = 0 THEN <<>> ELSE flat[k - 1] \o all[k]
    IN  flat[Len(toks)]

\* NERDetector._normalize_entity_type
_normalize_entity_type(entity_type) ==
    LET t == UpperStr(entity_type)
    IN  IF Contains(t, G_PER) THEN T_PERSON
        ELSE IF Contains(t, G_LOC) THEN T_LOCATION
        ELSE IF Contains(t, G_ORG) THEN T_ORGANIZATION
        ELSE t

\* NERDetector._merge_adjacent_entities
\* a test that merges candidates of the same type however far apart they are
same_type_only(detection, current) == detection.type = current.type

\* _merge_adjacent_entities: detection[2] - current[3] <= 1 and detection[0] == current[0]
adjacent_same_type(detection, current) ==
    detection.start - current.end <= 1 /\ detection.type = current.type

_merge_adjacent_entities(detections) ==
    LET sorted_detections == StableSort(detections, LAMBDA x, y : x.start < y.start)
        n == Len(sorted_detections)
        walk[k \in 1..Max(n, 1)] ==
            \* <<merged, current>> after the first k detections
            IF k = 1 THEN <<(<<>>), sorted_detections[1]>>
            ELSE LET merged == walk[k - 1][1]
                     current == walk[k - 1][2]
                     detection == sorted_detections[k]
                 IN  IF adjacent_same_type(detection, current)
                     THEN <<merged,
                            [current EXCEPT !.text = current.text \o <<" ">> \o detection.text,
                                            !.end = detection.end,
                                            !.confidence = Max(current.confidence, detection.confidence)]>>
                     ELSE <<Append(merged, current), detection>>
    IN  IF detections = <<>> THEN <<>>
        ELSE Append(walk[n][1], walk[n][2])

\* a gate that lets every score through
below_threshold_never(score, confidence_threshold) == FALSE

\* NERDetector.detect: if score < confidence_threshold: continue
below_threshold(score, confidence_threshold) == score < confidence_threshold

\* an except clause that returns what the loop had gathered
on_error_keep(detections) == detections

\* NERDetector.detect: except Exception ... return [], whatever the loop had
\* appended to detections before the exception
on_error(detections) == <<>>

\* NERDetector.detect; nerm.fails says that loading the model, calling it or
\* reading one of its entities raises.  When the load or the call raises there
\* are no entities (nerm.labels is empty); when an entity after the labelled
\* ones cannot be read, the loop has appended the ones before it.
NERDetector_detect(nerm, text, confidence_threshold) ==
    LET entities == NerPipeline(nerm, text)
        \* the entities the loop does not skip
        keeps(entity_type, score) ==
            /\ \E k \in DOMAIN DETECTED_ENTITIES : Contains(entity_type, DETECTED_ENTITIES[k])
            /\ ~below_threshold(score, confidence_threshold)
        kept == SelectSeq(entities, LAMBDA e : keeps(UpperStr(e.entity_group), e.score))
        append(entity) ==
            [type |-> _normalize_entity_type(UpperStr(entity.entity_group)),
             text |-> Strip(entity.word),
             start |-> entity.start, end |-> entity.end,
             confidence |-> entity.score]
        detections(k) == [i \in DOMAIN k |-> append(k[i])]
    IN  IF text = <<>> THEN <<>>
        ELSE IF nerm.fails THEN on_error(detections(kept))
        ELSE _merge_adjacent_entities(detections(kept))

(***************************************************************************)
(* core/masking.py                                                         *)
(***************************************************************************)
\* hashlib.sha256(text.encode()).hexdigest()[:8], for the texts that reach the
\* synthesizer in this model
Sha256Table == {
    <<<<"E","M","A","I","L">>,
      <<"7","2","d","9","0","a","f","3">>>>,
    <<<<"A","l">>,
      <<"1","a","f","8","f","f","a","2">>>>,
    <<<<"A","l"," ","A","l">>,
      <<"a","e","1","9","e","5","f","5">>>>,
    <<<<"A","l"," ","A","l"," ","A","l">>,
      <<"4","b","6","3","d","4","9","d">>>>,
    <<<<"A","l"," ","A","l"," ","A","l"," ","A","l">>,
      <<"0","d","8","d","f","0","b","a">>>>,
    <<<<"A","l"," ","A","l"," ","A","l"," ","B","o">>,
      <<"8","7","e","4","0","5","c","8">>>>,
    <<<<"A","l"," ","A","l"," ","B","o">>,
      <<"8","6","3","b","4","a","2","3">>>>,
    <<<<"A","l"," ","A","l"," ","B","o"," ","A","l">>,
      <<"7","c","e","c","9","4","7","d">>>>,
    <<<<"A","l"," ","A","l"," ","B","o"," ","B","o">>,
      <<"e","6","a","c","9","0","8","7">>>>,
    <<<<"A","l"," ","B","o">>,
      <<"a","a","9","e","f","4","1","4">>>>,
    <<<<"A","l"," ","B","o"," ","A","l">>,
      <<"2","f","8","c","7","7","f","8">>>>,
    <<<<"A","l"," ","B","o"," ","A","l"," ","A","l">>,
      <<"4","d","8","5","6","3","e","f">>>>,
    <<<<"A","l"," ","B","o"," ","A","l"," ","B","o">>,
      <<"1","6","b","e","3","3","4","7">>>>,
    <<<<"A","l"," ","B","o"," ","B","o">>,
      <<"f","f","c","8","7","a","2","3">>>>,
    <<<<"A","l"," ","B","o"," ","B","o"," ","A","l">>,
      <<"1","b","9","a","5","3","2","9">>>>,
    <<<<"A","l"," ","B","o"," ","B","o"," ","B","o">>,
      <<"a","1","f","5","4","b","6","3">>>>,
    <<<<"B","o">>,
      <<"e","5","2","e","1","c","e","d">>>>,
    <<<<"B","o"," ","A","l">>,
      <<"c","a","e","e","c","1","6","f">>>>,
    <<<<"B","o"," ","A","l"," ","A","l">>,
      <<"6","d","a","2","2","f","2","5">>>>,
    <<<<"B","o"," ","A","l"," ","A","l"," ","A","l">>,
      <<"6","d","d","d","b","0","a","7">>>>,
    <<<<"B","o"," ","A","l"," ","A","l"," ","B","o">>,
      <<"b","8","4","b","5","1","f","f">>>>,
    <<<<"B","o"," ","A","l"," ","B","o">>,
      <<"6","f","8","b","a","b","e","c">>>>,
    <<<<"B","o"," ","A","l"," ","B","o"," ","A","l">>,
      <<"7","c","f","a","6","b","a","b">>>>,
    <<<<"B","o"," ","A","l"," ","B","o"," ","B","o">>,
      <<"3","9","9","f","0","2","a","c">>>>,
    <<<<"B","o"," ","B","o">>,
      <<"7","d","a","c","2","d","9","7">>>>,
    <<<<"B","o"," ","B","o"," ","A","l">>,
      <<"e","b","d","a","2","f","0","1">>>>,
    <<<<"B","o"," ","B","o"," ","A","l"," ","A","l">>,
      <<"1","9","c","e","2","3","1","c">>>>,
    <<<<"B","o"," ","B","o"," ","A","l"," ","B","o">>,
      <<"a","b","5","9","4","3","7","a">>>>,
    <<<<"B","o"," ","B","o"," ","B","o">>,
      <<"0","1","a","5","3","e","6","b">>>>,
    <<<<"B","o"," ","B","o"," ","B","o"," ","A","l">>,
      <<"d","7","8","a","4","8","f","3">>>>,
    <<<<"B","o"," ","B","o"," ","B","o"," ","B","o">>,
      <<"e","1","7","f","e","1","4","8">>>>,
    <<<<"h","v","w","r","@","b",".","c","o">>,
      <<"c","e","f","c","3","2","9","7">>>>,
    <<<<"l","x","r","@","b",".","c","o">>,
      <<"c","e","f","c","3","2","9","7">>>>,
    <<<<"4","1","1","1","1","1","1","1","1","1","1","1","1","0","0","4">>,
      <<"a","a","4","2","3","f","1","4">>>>,
    <<<<"4","1","1","1","1","1","1","1","1","1","1","1","1","0","1","2">>,
      <<"b","8","9","3","5","2","d","f">>>>,
    <<<<"4","1","1","1","1","1","1","1","1","1","1","1","1","0","2","0">>,
      <<"d","6","c","5","d","e","8","a">>>>,
    <<<<"4","1","1","1","1","1","1","1","1","1","1","1","1","0","3","8">>,
      <<"f","9","d","6","1","a","2","1">>>>,
    <<<<"4","1","1","1","1","1","1","1","1","1","1","1","1","0","4","6">>,
      <<"0","b","e","b","4","8","3","9">>>>,
    <<<<"4","1","1","1","1","1","1","1","1","1","1","1","1","0","5","3">>,
      <<"5","2","1","6","7","a","8","2">>>>,
    <<<<"4","1","1","1","1","1","1","1","1","1","1","1","1","0","6","1">>,
      <<"f","f","6","9","6","5","a","f">>>>,
    <<<<"4","1","1","1","1","1","1","1","1","1","1","1","1","0","7","9">>,
      <<"1","7","a","e","7","d","6","6">>>>,
    <<<<"4","1","1","1","1","1","1","1","1","1","1","1","1","0","8","7">>,
      <<"5","2","7","9","5","7","8","4">>>>,
    <<<<"4","1","1","1","1","1","1","1","1","1","1","1","1","0","9","5">>,
      <<"d","c","b","d","c","c","3","2">>>>,
    <<<<"4","1","1","1","1","1","1","1","1","1","1","1","1","1","0","3">>,
      <<"9","6","c","9","0","2","f","c">>>>,
    <<<<"4","1","1","1","1","1","1","1","1","1","1","1","1","1","1","1">>,
      <<"9","b","b","e","f","1","9","4">>>>,
    <<<<"4","1","1","1","1","1","1","1","1","1","1","1","1","1","2","9">>,
      <<"d","2","2","c","0","b","3","8">>>>,
    <<<<"4","1","1","1","1","1","1","1","1","1","1","1","1","1","3","7">>,
      <<"f","6","b","7","d","8","7","f">>>>,
    <<<<"4","1","1","1","1","1","1","1","1","1","1","1","1","1","4","5">>,
      <<"4","3","5","c","3","1","8","9">>>>,
    <<<<"4","1","1","1","1","1","1","1","1","1","1","1","1","1","5","2">>,
      <<"d","0","4","b","1","e","8","f">>>>,
    <<<<"4","1","1","1","1","1","1","1","1","1","1","1","1","1","6","0">>,
      <<"1","9","1","a","0","f","5","8">>>>,
    <<<<"4","1","1","1","1","1","1","1","1","1","1","1","1","1","7","8">>,
      <<"7","7","6","e","0","5","b","8">>>>,
    <<<<"4","1","1","1","1","1","1","1","1","1","1","1","1","1","8","6">>,
      <<"2","5","f","e","1","c","3","b">>>>,
    <<<<"4","1","1","1","1","1","1","1","1","1","1","1","1","1","9","4">>,
      <<"f","e","a","6","a","8","2","a">>>>,
    <<<<"4","1","1","1","1","1","1","1","1","1","1","1","1","2","0","2">>,
      <<"4","4","b","b","2","0","4","f">>>>,
    <<<<"4","1","1","1","1","1","1","1","1","1","1","1","1","2","1","0">>,
      <<"5","6","6","4","9","8","3","6">>>>,
    <<<<"4","1","1","1","1","1","1","1","1","1","1","1","1","2","2","8">>,
      <<"2","5","3","f","4","3","0","a">>>>,
    <<<<"4","1","1","1","1","1","1","1","1","1","1","1","1","2","3","6">>,
      <<"d","0","0","c","b","6","6","a">>>>,
    <<<<"4","1","1","1","1","1","1","1","1","1","1","1","1","2","4","4">>,
      <<"1","c","1","4","d","b","5","b">>>>,
    <<<<"4","1","1","1","1","1","1","1","1","1","1","1","1","2","5","1">>,
      <<"5","7","4","d","a","7","4","d">>>>,
    <<<<"4","1","1","1","1","1","1","1","1","1","1","1","1","2","6","9">>,
      <<"2","c","9","6","5","6","2","d">>>>,
    <<<<"4","1","1","1","1","1","1","1","1","1","1","1","1","2","7","7">>,
      <<"5","8","d","b","a","5","d","3">>>>,
    <<<<"4","1","1","1","1","1","1","1","1","1","1","1","1","2","8","5">>,
      <<"d","b","3","c","2","5","3","2">>>>,
    <<<<"4","1","1","1","1","1","1","1","1","1","1","1","1","2","9","3">>,
      <<"2","7","3","6","b","1","1","5">>>>,
    <<<<"4","1","1","1","1","1","1","1","1","1","1","1","1","3","0","1">>,
      <<"f","6","0","b","e","0","6","2">>>>,
    <<<<"4","1","1","1","1","1","1","1","1","1","1","1","1","3","1","9">>,
      <<"7","2","e","8","d","1","c","8">>>>,
    <<<<"4","1","1","1","1","1","1","1","1","1","1","1","1","3","2","7">>,
      <<"4","a","2","6","2","5","9","f">>>>,
    <<<<"4","1","1","1","1","1","1","1","1","1","1","1","1","3","3","5">>,
      <<"7","d","e","d","5","7","4","f">>>>,
    <<<<"4","1","1","1","1","1","1","1","1","1","1","1","1","3","4","3">>,
      <<"e","d","0","6","e","7","2","6">>>>,
    <<<<"4","1","1","1","1","1","1","1","1","1","1","1","1","3","5","0">>,
      <<"2","6","f","2","5","d","c","e">>>>,
    <<<<"4","1","1","1","1","1","1","1","1","1","1","1","1","3","6","8">>,
      <<"2","5","e","5","e","c","b","1">>>>,
    <<<<"4","1","1","1","1","1","1","1","1","1","1","1","1","3","7","6">>,
      <<"d","c","c","e","0","b","4","b">>>>,
    <<<<"4","1","1","1","1","1","1","1","1","1","1","1","1","3","8","4">>,
      <<"c","4","4","1","4","7","f","8">>>>,
    <<<<"4","1","1","1","1","1","1","1","1","1","1","1","1","3","9","2">>,
      <<"7","9","9","8","2","4","b","b">>>>,
    <<<<"4","1","1","1","1","1","1","1","1","1","1","1","1","4","0","0">>,
      <<"f","a","f","e","5","5","d","c">>>>,
    <<<<"4","1","1","1","1","1","1","1","1","1","1","1","1","4","1","8">>,
      <<"6","6","8","3","e","1","f","2">>>>,
    <<<<"4","1","1","1","1","1","1","1","1","1","1","1","1","4","2","6">>,
      <<"6","1","7","4","7","0","d","b">>>>,
    <<<<"4","1","1","1","1","1","1","1","1","1","1","1","1","4","3","4">>,
      <<"4","9","9","0","2","a","0","d">>>>,
    <<<<"4","1","1","1","1","1","1","1","1","1","1","1","1","4","4","2">>,
      <<"9","9","a","5","3","a","f","a">>>>,
    <<<<"4","1","1","1","1","1","1","1","1","1","1","1","1","4","5","9">>,
      <<"c","6","c","d","6","1","1","0">>>>,
    <<<<"4","1","1","1","1","1","1","1","1","1","1","1","1","4","6","7">>,
      <<"7","4","9","b","6","d","3","1">>>>,
    <<<<"4","1","1","1","1","1","1","1","1","1","1","1","1","4","7","5">>,
      <<"7","2","f","0","b","8","9","5">>>>,
    <<<<"4","1","1","1","1","1","1","1","1","1","1","1","1","4","8","3">>,
      <<"f","3","8","f","0","e","1","7">>>>,
    <<<<"4","1","1","1","1","1","1","1","1","1","1","1","1","4","9","1">>,
      <<"e","d","9","9","a","0","8","b">>>>,
    <<<<"4","1","1","1","1","1","1","1","1","1","1","1","1","5","0","9">>,
      <<"9","9","3","3","c","2","f","d">>>>,
    <<<<"4","1","1","1","1","1","1","1","1","1","1","1","1","5","1","7">>,
      <<"b","7","5","d","3","f","b","b">>>>,
    <<<<"4","1","1","1","1","1","1","1","1","1","1","1","1","5","2","5">>,
      <<"d","7","5","b","d","5","2","6">>>>,
    <<<<"4","1","1","1","1","1","1","1","1","1","1","1","1","5","3","3">>,
      <<"2","d","1","d","4","3","a","4">>>>,
    <<<<"4","1","1","1","1","1","1","1","1","1","1","1","1","5","4","1">>,
      <<"b","0","b","c","e","9","8","9">>>>,
    <<<<"4","1","1","1","1","1","1","1","1","1","1","1","1","5","5","8">>,
      <<"e","2","d","a","2","f","b","a">>>>,
    <<<<"4","1","1","1","1","1","1","1","1","1","1","1","1","5","6","6">>,
      <<"8","1","d","3","5","6","a","7">>>>,
    <<<<"4","1","1","1","1","1","1","1","1","1","1","1","1","5","7","4">>,
      <<"9","b","2","f","5","7","d","8">>>>,
    <<<<"4","1","1","1","1","1","1","1","1","1","1","1","1","5","8","2">>,
      <<"4","1","c","3","6","5","e","4">>>>,
    <<<<"4","1","1","1","1","1","1","1","1","1","1","1","1","5","9","0">>,
      <<"e","2","4","e","b","1","2","e">>>>,
    <<<<"4","1","1","1","1","1","1","1","1","1","1","1","1","6","0","8">>,
      <<"2","c","6","2","5","6","6","1">>>>,
    <<<<"4","1","1","1","1","1","1","1","1","1","1","1","1","6","1","6">>,
      <<"b","3","5","e","b","b","f","2">>>>,
    <<<<"4","1","1","1","1","1","1","1","1","1","1","1","1","6","2","4">>,
      <<"6","3","d","4","e","e","d","8">>>>,
    <<<<"4","1","1","1","1","1","1","1","1","1","1","1","1","6","3","2">>,
      <<"9","0","b","2","7","3","6","5">>>>,
    <<<<"4","1","1","1","1","1","1","1","1","1","1","1","1","6","4","0">>,
      <<"1","9","c","0","0","9","5","d">>>>,
    <<<<"4","1","1","1","1","1","1","1","1","1","1","1","1","6","5","7">>,
      <<"0","0","d","b","f","c","8","6">>>>,
    <<<<"4","1","1","1","1","1","1","1","1","1","1","1","1","6","6","5">>,
      <<"9","8","7","6","9","b","a","2">>>>,
    <<<<"4","1","1","1","1","1","1","1","1","1","1","1","1","6","7","3">>,
      <<"b","8","f","0","5","4","9","6">>>>,
    <<<<"4","1","1","1","1","1","1","1","1","1","1","1","1","6","8","1">>,
      <<"5","b","6","6","f","5","b","4">>>>,
    <<<<"4","1","1","1","1","1","1","1","1","1","1","1","1","6","9","9">>,
      <<"4","5","6","b","1","a","d","9">>>>,
    <<<<"4","1","1","1","1","1","1","1","1","1","1","1","1","7","0","7">>,
      <<"2","d","d","c","0","6","f","b">>>>,
    <<<<"4","1","1","1","1","1","1","1","1","1","1","1","1","7","1","5">>,
      <<"2","6","7","2","6","3","6","3">>>>,
    <<<<"4","1","1","1","1","1","1","1","1","1","1","1","1","7","2","3">>,
      <<"b","0","3","4","2","8","8","f">>>>,
    <<<<"4","1","1","1","1","1","1","1","1","1","1","1","1","7","3","1">>,
      <<"c","2","1","b","6","1","f","b">>>>,
    <<<<"4","1","1","1","1","1","1","1","1","1","1","1","1","7","4","9">>,
      <<"e","8","7","4","d","9","0","3">>>>,
    <<<<"4","1","1","1","1","1","1","1","1","1","1","1","1","7","5","6">>,
      <<"6","6","d","3","7","c","9","b">>>>,
    <<<<"4","1","1","1","1","1","1","1","1","1","1","1","1","7","6","4">>,
      <<"f","6","8","1","2","3","9","0">>>>,
    <<<<"4","1","1","1","1","1","1","1","1","1","1","1","1","7","7","2">>,
      <<"b","d","f","2","7","b","a","a">>>>,
    <<<<"4","1","1","1","1","1","1","1","1","1","1","1","1","7","8","0">>,
      <<"5","1","d","7","d","4","2","6">>>>,
    <<<<"4","1","1","1","1","1","1","1","1","1","1","1","1","7","9","8">>,
      <<"2","c","d","f","4","b","d","5">>>>,
    <<<<"4","1","1","1","1","1","1","1","1","1","1","1","1","8","0","6">>,
      <<"3","e","7","c","d","0","3","5">>>>,
    <<<<"4","1","1","1","1","1","1","1","1","1","1","1","1","8","1","4">>,
      <<"f","6","2","1","4","3","9","d">>>>,
    <<<<"4","1","1","1","1","1","1","1","1","1","1","1","1","8","2","2">>,
      <<"1","2","4","4","8","6","b","7">>>>,
    <<<<"4","1","1","1","1","1","1","1","1","1","1","1","1","8","3","0">>,
      <<"7","5","1","6","f","6","2","a">>>>,
    <<<<"4","1","1","1","1","1","1","1","1","1","1","1","1","8","4","8">>,
      <<"d","0","6","4","f","8","a","2">>>>,
    <<<<"4","1","1","1","1","1","1","1","1","1","1","1","1","8","5","5">>,
      <<"7","b","3","6","5","4","9","f">>>>,
    <<<<"4","1","1","1","1","1","1","1","1","1","1","1","1","8","6","3">>,
      <<"0","8","e","1","3","a","a","3">>>>,
    <<<<"4","1","1","1","1","1","1","1","1","1","1","1","1","8","7","1">>,
      <<"2","a","d","3","a","d","0","2">>>>,
    <<<<"4","1","1","1","1","1","1","1","1","1","1","1","1","8","8","9">>,
      <<"3","9","7","9","f","6","b","4">>>>,
    <<<<"4","1","1","1","1","1","1","1","1","1","1","1","1","8","9","7">>,
      <<"9","1","5","7","f","7","c","d">>>>,
    <<<<"4","1","1","1","1","1","1","1","1","1","1","1","1","9","0","5">>,
      <<"a","7","3","1","4","c","8","8">>>>,
    <<<<"4","1","1","1","1","1","1","1","1","1","1","1","1","9","1","3">>,
      <<"5","3","a","2","8","e","f","7">>>>,
    <<<<"4","1","1","1","1","1","1","1","1","1","1","1","1","9","2","1">>,
      <<"a","d","c","f","3","2","8","6">>>>,
    <<<<"4","1","1","1","1","1","1","1","1","1","1","1","1","9","3","9">>,
      <<"5","1","4","f","5","8","4","5">>>>,
    <<<<"4","1","1","1","1","1","1","1","1","1","1","1","1","9","4","7">>,
      <<"2","7","1","1","c","f","9","d">>>>,
    <<<<"4","1","1","1","1","1","1","1","1","1","1","1","1","9","5","4">>,
      <<"8","e","c","7","b","0","f","1">>>>,
    <<<<"4","1","1","1","1","1","1","1","1","1","1","1","1","9","6","2">>,
      <<"2","9","2","0","d","8","7","8">>>>,
    <<<<"4","1","1","1","1","1","1","1","1","1","1","1","1","9","7","0">>,
      <<"7","1","8","d","e","3","6","d">>>>,
    <<<<"4","1","1","1","1","1","1","1","1","1","1","1","1","9","8","8">>,
      <<"b","f","2","7","c","d","8","f">>>>,
    <<<<"4","1","1","1","1","1","1","1","1","1","1","1","1","9","9","6">>,
      <<"f","7","6","8","7","6","f","a">>>>,
    <<<<"5","5","0","0","0","0","0","0","0","0","0","0","0","0","0","4">>,
      <<"d","d","1","e","d","7","4","b">>>>,
    <<<<"5","5","0","0","0","0","0","0","0","0","0","0","0","0","1","2">>,
      <<"b","9","a","8","a","7","d","e">>>>,
    <<<<"5","5","0","0","0","0","0","0","0","0","0","0","0","0","2","0">>,
      <<"5","7","e","9","c","f","c","2">>>>,
    <<<<"5","5","0","0","0","0","0","0","0","0","0","0","0","0","3","8">>,
      <<"2","0","0","7","4","f","d","9">>>>,
    <<<<"5","5","0","0","0","0","0","0","0","0","0","0","0","0","4","6">>,
      <<"0","5","3","5","3","d","7","1">>>>,
    <<<<"5","5","0","0","0","0","0","0","0","0","0","0","0","0","5","3">>,
      <<"a","9","f","7","5","9","9","a">>>>,
    <<<<"5","5","0","0","0","0","0","0","0","0","0","0","0","0","6","1">>,
      <<"9","1","6","c","3","e","1","3">>>>,
    <<<<"5","5","0","0","0","0","0","0","0","0","0","0","0","0","7","9">>,
      <<"3","e","d","9","5","e","5","0">>>>,
    <<<<"5","5","0","0","0","0","0","0","0","0","0","0","0","0","8","7">>,
      <<"3","5","f","7","9","7","7","4">>>>,
    <<<<"5","5","0","0","0","0","0","0","0","0","0","0","0","0","9","5">>,
      <<"1","8","f","7","3","6","b","e">>>>,
    <<<<"5","5","0","0","0","0","0","0","0","0","0","0","0","1","0","3">>,
      <<"5","8","a","7","e","8","e","7">>>>,
    <<<<"5","5","0","0","0","0","0","0","0","0","0","0","0","1","1","1">>,
      <<"0","3","d","3","6","7","6","4">>>>,
    <<<<"5","5","0","0","0","0","0","0","0","0","0","0","0","1","2","9">>,
      <<"d","7","c","5","8","0","f","0">>>>,
    <<<<"5","5","0","0","0","0","0","0","0","0","0","0","0","1","3","7">>,
      <<"5","c","4","9","5","7","9","8">>>>,
    <<<<"5","5","0","0","0","0","0","0","0","0","0","0","0","1","4","5">>,
      <<"a","8","a","6","4","a","9","7">>>>,
    <<<<"5","5","0","0","0","0","0","0","0","0","0","0","0","1","5","2">>,
      <<"7","1","4","b","8","1","7","c">>>>,
    <<<<"5","5","0","0","0","0","0","0","0","0","0","0","0","1","6","0">>,
      <<"a","3","8","7","3","4","c","f">>>>,
    <<<<"5","5","0","0","0","0","0","0","0","0","0","0","0","1","7","8">>,
      <<"8","f","9","8","8","f","d","c">>>>,
    <<<<"5","5","0","0","0","0","0","0","0","0","0","0","0","1","8","6">>,
      <<"3","4","5","3","4","a","5","a">>>>,
    <<<<"5","5","0","0","0","0","0","0","0","0","0","0","0","1","9","4">>,
      <<"9","3","0","f","6","1","f","6">>>>,
    <<<<"5","5","0","0","0","0","0","0","0","0","0","0","0","2","0","2">>,
      <<"0","a","2","4","7","d","c","4">>>>,
    <<<<"5","5","0","0","0","0","0","0","0","0","0","0","0","2","1","0">>,
      <<"f","5","5","e","a","b","9","3">>>>,
    <<<<"5","5","0","0","0","0","0","0","0","0","0","0","0","2","2","8">>,
      <<"7","d","c","4","6","5","e","3">>>>,
    <<<<"5","5","0","0","0","0","0","0","0","0","0","0","0","2","3","6">>,
      <<"8","a","0","e","3","e","c","e">>>>,
    <<<<"5","5","0","0","0","0","0","0","0","0","0","0","0","2","4","4">>,
      <<"0","4","b","5","0","4","e","e">>>>,
    <<<<"5","5","0","0","0","0","0","0","0","0","0","0","0","2","5","1">>,
      <<"9","d","a","a","6","7","f","a">>>>,
    <<<<"5","5","0","0","0","0","0","0","0","0","0","0","0","2","6","9">>,
      <<"8","b","9","b","2","f","e","d">>>>,
    <<<<"5","5","0","0","0","0","0","0","0","0","0","0","0","2","7","7">>,
      <<"c","1","f","f","f","9","f","1">>>>,
    <<<<"5","5","0","0","0","0","0","0","0","0","0","0","0","2","8","5">>,
      <<"1","d","e","1","c","1","f","7">>>>,
    <<<<"5","5","0","0","0","0","0","0","0","0","0","0","0","2","9","3">>,
      <<"a","f","7","6","e","9","0","8">>>>,
    <<<<"5","5","0","0","0","0","0","0","0","0","0","0","0","3","0","1">>,
      <<"5","e","7","0","c","0","d","1">>>>,
    <<<<"5","5","0","0","0","0","0","0","0","0","0","0","0","3","1","9">>,
      <<"e","e","6","b","0","c","3","b">>>>,
    <<<<"5","5","0","0","0","0","0","0","0","0","0","0","0","3","2","7">>,
      <<"0","1","e","2","e","7","2","8">>>>,
    <<<<"5","5","0","0","0","0","0","0","0","0","0","0","0","3","3","5">>,
      <<"8","7","8","5","0","7","2","8">>>>,
    <<<<"5","5","0","0","0","0","0","0","0","0","0","0","0","3","4","3">>,
      <<"9","5","5","6","5","8","2","8">>>>,
    <<<<"5","5","0","0","0","0","0","0","0","0","0","0","0","3","5","0">>,
      <<"8","7","0","2","e","c","5","0">>>>,
    <<<<"5","5","0","0","0","0","0","0","0","0","0","0","0","3","6","8">>,
      <<"1","5","8","3","c","7","c","8">>>>,
    <<<<"5","5","0","0","0","0","0","0","0","0","0","0","0","3","7","6">>,
      <<"d","7","d","d","5","6","e","6">>>>,
    <<<<"5","5","0","0","0","0","0","0","0","0","0","0","0","3","8","4">>,
      <<"d","a","a","4","6","a","b","1">>>>,
    <<<<"5","5","0","0","0","0","0","0","0","0","0","0","0","3","9","2">>,
      <<"b","b","8","e","2","5","1","b">>>>,
    <<<<"5","5","0","0","0","0","0","0","0","0","0","0","0","4","0","0">>,
      <<"5","3","9","4","2","4","0","b">>>>,
    <<<<"5","5","0","0","0","0","0","0","0","0","0","0","0","4","1","8">>,
      <<"9","4","0","7","d","9","4","a">>>>,
    <<<<"5","5","0","0","0","0","0","0","0","0","0","0","0","4","2","6">>,
      <<"f","1","d","c","a","2","a","f">>>>,
    <<<<"5","5","0","0","0","0","0","0","0","0","0","0","0","4","3","4">>,
      <<"f","f","b","7","9","9","2","0">>>>,
    <<<<"5","5","0","0","0","0","0","0","0","0","0","0","0","4","4","2">>,
      <<"7","c","d","4","2","2","4","2">>>>,
    <<<<"5","5","0","0","0","0","0","0","0","0","0","0","0","4","5","9">>,
      <<"b","d","e","b","9","b","5","1">>>>,
    <<<<"5","5","0","0","0","0","0","0","0","0","0","0","0","4","6","7">>,
      <<"1","4","3","6","9","c","f","e">>>>,
    <<<<"5","5","0","0","0","0","0","0","0","0","0","0","0","4","7","5">>,
      <<"4","0","0","3","7","2","0","2">>>>,
    <<<<"5","5","0","0","0","0","0","0","0","0","0","0","0","4","8","3">>,
      <<"0","6","f","c","c","e","c","7">>>>,
    <<<<"5","5","0","0","0","0","0","0","0","0","0","0","0","4","9","1">>,
      <<"5","4","b","d","c","d","3","2">>>>,
    <<<<"5","5","0","0","0","0","0","0","0","0","0","0","0","5","0","9">>,
      <<"8","d","2","e","1","c","a","e">>>>,
    <<<<"5","5","0","0","0","0","0","0","0","0","0","0","0","5","1","7">>,
      <<"3","1","9","4","d","3","1","8">>>>,
    <<<<"5","5","0","0","0","0","0","0","0","0","0","0","0","5","2","5">>,
      <<"6","5","f","a","c","f","8","5">>>>,
    <<<<"5","5","0","0","0","0","0","0","0","0","0","0","0","5","3","3">>,
      <<"0","3","f","2","8","2","4","6">>>>,
    <<<<"5","5","0","0","0","0","0","0","0","0","0","0","0","5","4","1">>,
      <<"6","0","f","b","8","4","c","1">>>>,
    <<<<"5","5","0","0","0","0","0","0","0","0","0","0","0","5","5","8">>,
      <<"6","7","2","9","3","c","f","a">>>>,
    <<<<"5","5","0","0","0","0","0","0","0","0","0","0","0","5","6","6">>,
      <<"d","f","6","2","8","2","3","7">>>>,
    <<<<"5","5","0","0","0","0","0","0","0","0","0","0","0","5","7","4">>,
      <<"e","3","0","e","8","a","7","6">>>>,
    <<<<"5","5","0","0","0","0","0","0","0","0","0","0","0","5","8","2">>,
      <<"4","3","5","a","c","d","3","9">>>>,
    <<<<"5","5","0","0","0","0","0","0","0","0","0","0","0","5","9","0">>,
      <<"f","f","b","9","f","8","c","e">>>>,
    <<<<"5","5","0","0","0","0","0","0","0","0","0","0","0","6","0","8">>,
      <<"5","7","4","6","a","e","8","0">>>>,
    <<<<"5","5","0","0","0","0","0","0","0","0","0","0","0","6","1","6">>,
      <<"2","b","1","0","f","d","b","9">>>>,
    <<<<"5","5","0","0","0","0","0","0","0","0","0","0","0","6","2","4">>,
      <<"3","3","b","2","d","f","1","7">>>>,
    <<<<"5","5","0","0","0","0","0","0","0","0","0","0","0","6","3","2">>,
      <<"e","a","e","1","7","f","d","7">>>>,
    <<<<"5","5","0","0","0","0","0","0","0","0","0","0","0","6","4","0">>,
      <<"6","b","2","e","3","7","e","6">>>>,
    <<<<"5","5","0","0","0","0","0","0","0","0","0","0","0","6","5","7">>,
      <<"0","7","6","5","6","9","c","5">>>>,
    <<<<"5","5","0","0","0","0","0","0","0","0","0","0","0","6","6","5">>,
      <<"7","5","d","c","3","7","0","6">>>>,
    <<<<"5","5","0","0","0","0","0","0","0","0","0","0","0","6","7","3">>,
      <<"c","9","3","6","1","2","1","f">>>>,
    <<<<"5","5","0","0","0","0","0","0","0","0","0","0","0","6","8","1">>,
      <<"f","0","9","9","5","e","c","a">>>>,
    <<<<"5","5","0","0","0","0","0","0","0","0","0","0","0","6","9","9">>,
      <<"f","3","b","9","1","2","2","a">>>>,
    <<<<"5","5","0","0","0","0","0","0","0","0","0","0","0","7","0","7">>,
      <<"e","1","d","3","7","9","8","c">>>>,
    <<<<"5","5","0","0","0","0","0","0","0","0","0","0","0","7","1","5">>,
      <<"c","6","6","6","a","9","9","8">>>>,
    <<<<"5","5","0","0","0","0","0","0","0","0","0","0","0","7","2","3">>,
      <<"c","9","b","e","f","f","8","4">>>>,
    <<<<"5","5","0","0","0","0","0","0","0","0","0","0","0","7","3","1">>,
      <<"8","0","f","3","d","e","f","2">>>>,
    <<<<"5","5","0","0","0","0","0","0","0","0","0","0","0","7","4","9">>,
      <<"7","6","7","2","a","e","8","7">>>>,
    <<<<"5","5","0","0","0","0","0","0","0","0","0","0","0","7","5","6">>,
      <<"5","f","2","2","f","a","d","1">>>>,
    <<<<"5","5","0","0","0","0","0","0","0","0","0","0","0","7","6","4">>,
      <<"9","2","b","0","e","9","0","b">>>>,
    <<<<"5","5","0","0","0","0","0","0","0","0","0","0","0","7","7","2">>,
      <<"1","f","a","3","8","1","3","d">>>>,
    <<<<"5","5","0","0","0","0","0","0","0","0","0","0","0","7","8","0">>,
      <<"4","9","8","5","7","0","4","0">>>>,
    <<<<"5","5","0","0","0","0","0","0","0","0","0","0","0","7","9","8">>,
      <<"9","b","8","7","7","0","2","b">>>>,
    <<<<"5","5","0","0","0","0","0","0","0","0","0","0","0","8","0","6">>,
      <<"b","c","e","3","8","5","0","5">>>>,
    <<<<"5","5","0","0","0","0","0","0","0","0","0","0","0","8","1","4">>,
      <<"1","6","a","9","3","d","2","6">>>>,
    <<<<"5","5","0","0","0","0","0","0","0","0","0","0","0","8","2","2">>,
      <<"2","5","9","9","1","8","f","4">>>>,
    <<<<"5","5","0","0","0","0","0","0","0","0","0","0","0","8","3","0">>,
      <<"8","6","2","7","7","b","c","2">>>>,
    <<<<"5","5","0","0","0","0","0","0","0","0","0","0","0","8","4","8">>,
      <<"0","1","1","c","8","0","b","9">>>>,
    <<<<"5","5","0","0","0","0","0","0","0","0","0","0","0","8","5","5">>,
      <<"f","b","0","c","3","5","c","8">>>>,
    <<<<"5","5","0","0","0","0","0","0","0","0","0","0","0","8","6","3">>,
      <<"f","7","f","a","f","a","c","9">>>>,
    <<<<"5","5","0","0","0","0","0","0","0","0","0","0","0","8","7","1">>,
      <<"9","3","1","7","f","4","5","7">>>>,
    <<<<"5","5","0","0","0","0","0","0","0","0","0","0","0","8","8","9">>,
      <<"d","d","5","6","5","5","3","6">>>>,
    <<<<"5","5","0","0","0","0","0","0","0","0","0","0","0","8","9","7">>,
      <<"b","a","f","0","a","a","f","d">>>>,
    <<<<"5","5","0","0","0","0","0","0","0","0","0","0","0","9","0","5">>,
      <<"a","6","9","d","5","8","b","4">>>>,
    <<<<"5","5","0","0","0","0","0","0","0","0","0","0","0","9","1","3">>,
      <<"f","d","f","a","0","9","2","8">>>>,
    <<<<"5","5","0","0","0","0","0","0","0","0","0","0","0","9","2","1">>,
      <<"e","4","0","a","e","b","3","e">>>>,
    <<<<"5","5","0","0","0","0","0","0","0","0","0","0","0","9","3","9">>,
      <<"c","8","4","9","3","c","3","6">>>>,
    <<<<"5","5","0","0","0","0","0","0","0","0","0","0","0","9","4","7">>,
      <<"d","3","6","9","8","9","f","2">>>>,
    <<<<"5","5","0","0","0","0","0","0","0","0","0","0","0","9","5","4">>,
      <<"6","5","8","2","1","6","5","a">>>>,
    <<<<"5","5","0","0","0","0","0","0","0","0","0","0","0","9","6","2">>,
      <<"c","0","3","4","f","6","8","e">>>>,
    <<<<"5","5","0","0","0","0","0","0","0","0","0","0","0","9","7","0">>,
      <<"3","6","b","4","7","f","c","a">>>>,
    <<<<"5","5","0","0","0","0","0","0","0","0","0","0","0","9","8","8">>,
      <<"1","1","3","e","3","9","7","7">>>>,
    <<<<"5","5","0","0","0","0","0","0","0","0","0","0","0","9","9","6">>,
      <<"7","9","f","7","5","2","6","2">>>>,
    <<<<"a">>,
      <<"c","a","9","7","8","1","1","2">>>>,
    <<<<"b">>,
      <<"3","e","2","3","e","8","1","6">>>>,
    <<<<"c">>,
      <<"2","e","7","d","2","c","0","3">>>>,
    <<<<"a","b">>,
      <<"f","b","8","e","2","0","f","c">>>>,
    <<<<"b","c">>,
      <<"1","e","0","b","b","d","6","c">>>>,
    <<<<"a","b","c">>,
      <<"b","a","7","8","1","6","b","f">>>> }
Unhashed == <<"?","?","?","?","?","?","?","?">>

sha256_hex8(text) ==
    IF \E row \in Sha256Table : row[1] = text
    THEN (CHOOSE row \in Sha256Table : row[1] = text)[2]
    ELSE Unhashed

\* a placeholder numbered by the call that makes it, in place of the digest
_generate_placeholder_per_call(prefix, suffix, entity_type, text) ==
    prefix \o entity_type \o <<"_">> \o <<DigitSeq[calls + 1]>> \o suffix

\* MaskingEngine._generate_placeholder
_generate_placeholder(prefix, suffix, entity_type, text) ==
    prefix \o entity_type \o <<"_">> \o sha256_hex8(text) \o suffix

\* dict: d[k] = v keeps the position of a key that is already there
DictSet(d, k, v) ==
    IF \E i \in DOMAIN d : d[i][1] = k
    THEN [i \in DOMAIN d |-> IF d[i][1] = k THEN <<k, v>> ELSE d[i]]
    ELSE Append(d, <<k, v>>)

DictKeys(d) == {d[i][1] : i \in DOMAIN d}
DictGet(d, k) == (CHOOSE i \in DOMAIN d : d[i][1] = k)
DictValue(d, k) == d[DictGet(d, k)][2]

\* an order that puts the detection that starts first first
earlier_first(x, y) == x.start < y.start

\* mask_text: sorted(detections, key=lambda x: x["start"], reverse=True)
later_first(x, y) == x.start > y.start

\* MaskingEngine.mask_text; `emitted` is the placeholder synthesized for each
\* detection, in the order of the loop
mask_text(prefix, suffix, text, detections) ==
    LET sorted_detections == StableSort(detections, later_first)
        n == Len(sorted_detections)
        loop[k \in 0..n] ==
            IF k = 0 THEN [masked_text |-> text, rehydration_map |-> <<>>, emitted |-> <<>>]
            ELSE LET prev == loop[k - 1]
                     detection == sorted_detections[k]
                     placeholder == _generate_placeholder(prefix, suffix, detection.type, detection.text)
                 IN  [masked_text |-> Slice(prev.masked_text, 0, detection.start) \o placeholder
                                      \o SliceFrom(prev.masked_text, detection.end),
                      rehydration_map |-> DictSet(prev.rehydration_map, placeholder, detection.text),
                      emitted |-> Append(prev.emitted,
                                         [type |-> detection.type, text |-> detection.text,
                                          start |-> detection.start, end |-> detection.end,
                                          placeholder |-> placeholder])]
    IN  loop[n]

\* an order that puts the shorter placeholder first
shorter_first(x, y) == Len(x[1]) < Len(y[1])

\* rehydrate_text: sorted(rehydration_map.items(), key=lambda x: len(x[0]), reverse=True)
longer_first(x, y) == Len(x[1]) > Len(y[1])

\* MaskingEngine.rehydrate_text
rehydrate_text(masked_text, rehydration_map) ==
    LET sorted_placeholders == StableSort(rehydration_map, longer_first)
        n == Len(sorted_placeholders)
        loop[k \in 0..n] ==
            IF k = 0 THEN masked_text
            ELSE Replace(loop[k - 1], sorted_placeholders[k][1], sorted_placeholders[k][2])
    IN  loop[n]

\* a value that is not a str is the one-element sequence naming its type
NotStr == {<<"int">>, <<"list">>}

\* isinstance(value, str)
isinstance_str(value) == value \notin NotStr

\* MaskingEngine.validate_rehydration_map
validate_rehydration_map(prefix, suffix, rehydration_map) ==
    \A i \in DOMAIN rehydration_map :
        /\ StartsWith(rehydration_map[i][1], prefix) /\ EndsWith(rehydration_map[i][1], suffix)
        /\ isinstance_str(rehydration_map[i][2])

DefaultPrefix == <<"<","<">>
DefaultSuffix == <<">",">">>

(***************************************************************************)
(* core/pipeline.py                                                        *)
(***************************************************************************)
\* SanitizerConfig.normalize_whitelist
normalize_whitelist(v) == [i \in DOMAIN v |-> LowerStr(v[i])]

\* pattern.search(detection_text) for a pattern of _compile_whitelist_patterns:
\* \b + re.escape(entry) + \b, re.IGNORECASE
WhitelistSearch(entry, detection_text) ==
    \E i \in 0..Len(detection_text) :
        /\ MatchAt(LowerStr(detection_text), LowerStr(entry), i)
        /\ Boundary(detection_text, i)
        /\ Boundary(detection_text, i + Len(entry))

\* SanitizationPipeline._apply_whitelist
_apply_whitelist(whitelist, detections) ==
    SelectSeq(detections, LAMBDA detection :
        ~\E w \in DOMAIN whitelist : WhitelistSearch(whitelist[w], detection.text))

\* a resolver that takes every candidate for one that starts after the last
no_overlap_always(detection, last_end) == TRUE

\* deduplicate_detections: if detection["start"] >= last_end
no_overlap(detection, last_end) == detection.start >= last_end

\* SanitizationPipeline.deduplicate_detections
deduplicate_detections(detections) ==
    LET sorted_detections ==
            StableSort(detections,
                LAMBDA x, y : x.start < y.start \/ (x.start = y.start /\ x.end > y.end))
        n == Len(sorted_detections)
        walk[k \in 0..n] ==
            \* <<result, last_end>> after the first k detections
            IF k = 0 THEN <<(<<>>), -1>>
            ELSE LET result == walk[k - 1][1]
                     last_end == walk[k - 1][2]
                     detection == sorted_detections[k]
                     adjusted == [detection EXCEPT
                                     !.start = last_end,
                                     !.text = SliceFrom(detection.text, last_end - detection.start)]
                 IN  IF no_overlap(detection, last_end)
                     THEN <<Append(result, detection), detection.end>>
                     ELSE IF detection.end > last_end /\ adjusted.text # <<>>
                     THEN <<Append(result, adjusted), adjusted.end>>
                     ELSE walk[k - 1]
    IN  walk[n][1]

(***************************************************************************)
(* core/parsers.py: the json module                                        *)
(*                                                                         *)
(* A decoded JSON value is a record [t, s, n, items]: t is its type, s the *)
(* text of a str, n the value of an int, items the elements of a list or   *)
(* the [k, v] members of a dict, in insertion order.  The numbers of the   *)
(* model's documents are integers.                                         *)
(***************************************************************************)
JStr(s) == [t |-> "str", s |-> s, n |-> 0, items |-> <<>>]
JNum(n) == [t |-> "int", s |-> <<>>, n |-> n, items |-> <<>>]
JNull == [t |-> "None", s |-> <<>>, n |-> 0, items |-> <<>>]
JBool(b) == [t |-> "bool", s |-> <<>>, n |-> IF b THEN 1 ELSE 0, items |-> <<>>]
JList(items) == [t |-> "list", s |-> <<>>, n |-> 0, items |-> items]
JDict(items) == [t |-> "dict", s |-> <<>>, n |-> 0, items |-> items]

\* str(n) for an int
RECURSIVE IntToText(_)
IntToText(n) ==
    IF n < 0 THEN <<"-">> \o IntToText(0 - n)
    ELSE IF n < 10 THEN <<DigitSeq[n + 1]>>
    ELSE IntToText(n \div 10) \o <<DigitSeq[(n % 10) + 1]>>

\* str.isdigit()
IsDigitStr(s) == s # <<>> /\ \A i \in DOMAIN s : s[i] \in Digit

\* int(s) for a str of digits
RECURSIVE TextToInt(_)
TextToInt(s) ==
    IF s = <<>> THEN 0
    ELSE 10 * TextToInt(SubSeq(s, 1, Len(s) - 1)) + DigitVal(s[Len(s)])

JsonWhitespace == {" ", NL, "\t", "\r"}

ParseFail == [ok |-> FALSE, v |-> JNull, pos |-> 0]

\* the str that starts with the '"' at offset pos
JsonParseString(s, pos) ==
    LET scan[p \in (pos + 1)..(Len(s) + 1)] ==
            LET ch == CharAt(s, p)
                esc == CharAt(s, p + 1)
                rest(q) == scan[q]
            IN  IF ch = "" \/ ch \in {NL, "\t", "\r"} THEN [ok |-> FALSE, s |-> <<>>, pos |-> 0]
                ELSE IF ch = "\"" THEN [ok |-> TRUE, s |-> <<>>, pos |-> p + 1]
                ELSE IF ch = "\\"
                THEN IF esc \in {"\"", "\\", "/", "n", "t"} /\ p + 2 <= Len(s)
                     THEN LET r == rest(p + 2)
                              dec == CASE esc = "n" -> NL [] esc = "t" -> "\t" [] OTHER -> esc
                          IN  [r EXCEPT !.s = <<dec>> \o r.s]
                     ELSE [ok |-> FALSE, s |-> <<>>, pos |-> 0]
                ELSE IF p + 1 <= Len(s)
                THEN LET r == rest(p + 1) IN [r EXCEPT !.s = <<ch>> \o r.s]
                ELSE [ok |-> FALSE, s |-> <<>>, pos |-> 0]
    IN  IF CharAt(s, pos) = "\"" THEN scan[pos + 1] ELSE [ok |-> FALSE, s |-> <<>>, pos |-> 0]

RECURSIVE JsonParseValue(_, _)
RECURSIVE JsonParseItems(_, _, _)
RECURSIVE JsonParseMembers(_, _, _)

\* the elements of a list after '[' or ',', acc the elements read so far
JsonParseItems(s, pos, acc) ==
    LET item == JsonParseValue(s, pos)
        q == RunEnd(s, item.pos, JsonWhitespace)
    IN  IF ~item.ok THEN ParseFail
        ELSE IF CharAt(s, q) = "," THEN JsonParseItems(s, q + 1, Append(acc, item.v))
        ELSE IF CharAt(s, q) = "]" THEN [ok |-> TRUE, v |-> JList(Append(acc, item.v)), pos |-> q + 1]
        ELSE ParseFail

\* the members of a dict after '{' or ',', acc the members read so far
JsonParseMembers(s, pos, acc) ==
    LET p == RunEnd(s, pos, JsonWhitespace)
        key == JsonParseString(s, p)
        c == RunEnd(s, key.pos, JsonWhitespace)
        val == JsonParseValue(s, c + 1)
        q == RunEnd(s, val.pos, JsonWhitespace)
        member == [k |-> key.s, v |-> val.v]
        acc2 == IF \E i \in DOMAIN acc : acc[i].k = key.s
                THEN [i \in DOMAIN acc |-> IF acc[i].k = key.s THEN member ELSE acc[i]]
                ELSE Append(acc, member)
    IN  IF ~key.ok \/ CharAt(s, c) # ":" THEN ParseFail
        ELSE IF ~val.ok THEN ParseFail
        ELSE IF CharAt(s, q) = "," THEN JsonParseMembers(s, q + 1, acc2)
        ELSE IF CharAt(s, q) = "}" THEN [ok |-> TRUE, v |-> JDict(acc2), pos |-> q + 1]
        ELSE ParseFail

\* the value that starts at or after offset pos
JsonParseValue(s, pos) ==
    LET p == RunEnd(s, pos, JsonWhitespace)
        ch == CharAt(s, p)
        neg == IF ch = "-" THEN 1 ELSE 0
        dend == RunEnd(s, p + neg, Digit)
        digits == Slice(s, p + neg, dend)
        str == JsonParseString(s, p)
        word(w) == MatchAt(s, w, p)
        after == RunEnd(s, p + 1, JsonWhitespace)
    IN  IF ch = "\""
        THEN IF str.ok THEN [ok |-> TRUE, v |-> JStr(str.s), pos |-> str.pos] ELSE ParseFail
        ELSE IF ch = "["
        THEN IF CharAt(s, after) = "]" THEN [ok |-> TRUE, v |-> JList(<<>>), pos |-> after + 1]
             ELSE JsonParseItems(s, p + 1, <<>>)
        ELSE IF ch = "{"
        THEN IF CharAt(s, after) = "}" THEN [ok |-> TRUE, v |-> JDict(<<>>), pos |-> after + 1]
             ELSE JsonParseMembers(s, p + 1, <<>>)
        ELSE IF word(<<"n","u","l","l">>) THEN [ok |-> TRUE, v |-> JNull, pos |-> p + 4]
        ELSE IF word(<<"t","r","u","e">>) THEN [ok |-> TRUE, v |-> JBool(TRUE), pos |-> p + 4]
        ELSE IF word(<<"f","a","l","s","e">>) THEN [ok |-> TRUE, v |-> JBool(FALSE), pos |-> p + 5]
        ELSE IF digits # <<>> /\ (Len(digits) = 1 \/ digits[1] # "0")
                /\ CharAt(s, dend) \notin {".", "e", "E"}
        THEN [ok |-> TRUE, v |-> JNum(IF neg = 1 THEN 0 - TextToInt(digits) ELSE TextToInt(digits)),
              pos |-> dend]
        ELSE ParseFail

\* json.loads(content): ok is FALSE where it raises JSONDecodeError
json_loads(s) ==
    LET r == JsonParseValue(s, 0)
    IN  IF r.ok /\ RunEnd(s, r.pos, JsonWhitespace) = Len(s) THEN r ELSE ParseFail

\* the body of a str as json.dumps(ensure_ascii=False) writes it
JsonEscape(s) ==
    LET one(ch) == CASE ch = "\"" -> <<"\\", "\"">>
                     [] ch = "\\" -> <<"\\", "\\">>
                     [] ch = NL -> <<"\\", "n">>
                     [] ch = "\t" -> <<"\\", "t">>
                     [] OTHER -> <<ch>>
        flat[k \in 0..Len(s)] == IF k = 0 THEN <<>> ELSE flat[k - 1] \o one(s[k])
    IN  flat[Len(s)]

Spaces(n) == [i \in 1..n |-> " "]

\* json.dumps(v, ensure_ascii=False, indent=2), v at nesting depth level
RECURSIVE JsonDump(_, _)
JsonDump(v, level) ==
    LET inner == <<NL>> \o Spaces(2 * (level + 1))
        close == <<NL>> \o Spaces(2 * level)
        elem(i) == IF v.t = "dict"
                   THEN <<"\"">> \o JsonEscape(v.items[i].k) \o <<"\"", ":", " ">>
                        \o JsonDump(v.items[i].v, level + 1)
                   ELSE JsonDump(v.items[i], level + 1)
        body[k \in 0..Len(v.items)] ==
            IF k = 0 THEN <<>>
            ELSE body[k - 1] \o (IF k > 1 THEN <<",">> ELSE <<>>) \o inner \o elem(k)
    IN  CASE v.t = "str" -> <<"\"">> \o JsonEscape(v.s) \o <<"\"">>
          [] v.t = "int" -> IntToText(v.n)
          [] v.t = "None" -> <<"n","u","l","l">>
          [] v.t = "bool" -> IF v.n = 1 THEN <<"t","r","u","e">> ELSE <<"f","a","l","s","e">>
          [] v.t = "list" -> IF v.items = <<>> THEN <<"[", "]">>
                             ELSE <<"[">> \o body[Len(v.items)] \o close \o <<"]">>
          [] v.t = "dict" -> IF v.items = <<>> THEN <<"{", "}">>
                             ELSE <<"{">> \o body[Len(v.items)] \o close \o <<"}">>

json_dumps(v) == JsonDump(v, 0)

(***************************************************************************)
(* core/parsers.py: PlainTextParser and JSONParser                         *)
(***************************************************************************)
NoMetadata == [empty |-> TRUE, structure |-> JNull, paths |-> <<>>]

\* PlainTextParser.parse
PlainTextParser_parse(c) == [exc |-> "", msg |-> "", text |-> c, metadata |-> NoMetadata]

\* JSONParser._extract_texts: the str leaves as [text, path], depth first
RECURSIVE _extract_texts(_, _)
_extract_texts(obj, path) ==
    LET sub(i) == IF obj.t = "dict"
                  THEN _extract_texts(obj.items[i].v,
                                      IF path # <<>> THEN path \o <<".">> \o obj.items[i].k
                                      ELSE obj.items[i].k)
                  ELSE _extract_texts(obj.items[i], path \o <<"[">> \o IntToText(i - 1) \o <<"]">>)
        flat[k \in 0..Len(obj.items)] == IF k = 0 THEN <<>> ELSE flat[k - 1] \o sub(k)
    IN  IF obj.t = "str" THEN <<[text |-> obj.s, path |-> path]>>
        ELSE IF obj.t \in {"dict", "list"} THEN flat[Len(obj.items)]
        ELSE <<>>

\* a parser that passes undecodable content on as one text
JSONParser_parse_lenient(c) ==
    LET extracted(data, leaves) ==
            [exc |-> "", msg |-> "",
             text |-> Join(<<NL>>, [i \in DOMAIN leaves |-> leaves[i].text]),
             metadata |-> [empty |-> FALSE, structure |-> data,
                           paths |-> [i \in DOMAIN leaves |-> leaves[i].path]]]
        loaded(data) ==
            IF ~data.ok
            THEN [exc |-> "", msg |-> "", text |-> c, metadata |-> NoMetadata]
            ELSE extracted(data.v, _extract_texts(data.v, <<>>))
    IN  loaded(json_loads(c))

\* JSONParser.parse
JSONParser_parse(c) ==
    LET extracted(data, leaves) ==
            [exc |-> "", msg |-> "",
             text |-> Join(<<NL>>, [i \in DOMAIN leaves |-> leaves[i].text]),
             metadata |-> [empty |-> FALSE, structure |-> data,
                           paths |-> [i \in DOMAIN leaves |-> leaves[i].path]]]
        loaded(data) ==
            IF ~data.ok
            THEN [exc |-> "ValueError", msg |-> "Invalid JSON", text |-> <<>>, metadata |-> NoMetadata]
            ELSE extracted(data.v, _extract_texts(data.v, <<>>))
    IN  loaded(json_loads(c))

\* the loop of JSONParser._set_value from its i-th iteration on, current the
\* object it has walked to: the exception it raises, if any, and current as
\* the assignments leave it
RECURSIVE SetValueLoop(_, _, _, _)
SetValueLoop(current, parts, i, value) ==
    LET n == Len(parts)
        part == parts[i + 1]
        last == parts[n]
        idx == TextToInt(part)
        same == [exc |-> "", v |-> current]
        raise(e) == [exc |-> e, v |-> current]
        member == CHOOSE m \in DOMAIN current.items : current.items[m].k = part
        intoDict == SetValueLoop(current.items[member].v, parts, i + 1, value)
        intoList == SetValueLoop(current.items[idx + 1], parts, i + 1, value)
        intoStr == SetValueLoop(JStr(<<current.s[idx + 1]>>), parts, i + 1, value)
    IN  IF i > n - 2 THEN same
        ELSE IF i = n - 2
        THEN CASE current.t = "dict" ->
                    [exc |-> "",
                     v |-> [current EXCEPT !.items =
                              IF \E m \in DOMAIN current.items : current.items[m].k = last
                              THEN [m \in DOMAIN current.items |->
                                      IF current.items[m].k = last
                                      THEN [k |-> last, v |-> JStr(value)]
                                      ELSE current.items[m]]
                              ELSE Append(current.items, [k |-> last, v |-> JStr(value)])]]
               [] current.t = "list" ->
                    IF ~IsDigitStr(last) THEN raise("ValueError")
                    ELSE IF TextToInt(last) >= Len(current.items) THEN raise("IndexError")
                    ELSE [exc |-> "",
                          v |-> [current EXCEPT !.items[TextToInt(last) + 1] = JStr(value)]]
               [] OTHER -> same
        ELSE CASE current.t = "dict" ->
                    \* a digit part has become an int, and no key of a decoded dict is an int
                    IF IsDigitStr(part) \/ ~\E m \in DOMAIN current.items : current.items[m].k = part
                    THEN raise("KeyError")
                    ELSE [exc |-> intoDict.exc,
                          v |-> [current EXCEPT !.items[member].v = intoDict.v]]
               [] current.t = "list" ->
                    IF ~IsDigitStr(part) THEN raise("TypeError")
                    ELSE IF idx >= Len(current.items) THEN raise("IndexError")
                    ELSE [exc |-> intoList.exc,
                          v |-> [current EXCEPT !.items[idx + 1] = intoList.v]]
               [] current.t = "str" ->
                    IF ~IsDigitStr(part) THEN raise("TypeError")
                    ELSE IF idx >= Len(current.s) THEN raise("IndexError")
                    ELSE [exc |-> intoStr.exc, v |-> current]
               [] OTHER -> raise("TypeError")

\* JSONParser._set_value
_set_value(obj, path, value) ==
    LET parts == Split(Replace(Replace(Replace(path, <<"]","[">>, <<".">>), <<"[">>, <<".">>),
                               <<"]">>, <<>>),
                       <<".">>)
    IN  SetValueLoop(obj, parts, 0, value)

\* JSONParser.reconstruct, metadata not empty
JSONParser_reconstruct(text, metadata) ==
    LET text_lines == Split(text, <<NL>>)
        n == Min(Len(text_lines), Len(metadata.paths))
        loop[k \in 0..n] ==
            IF k = 0 THEN [exc |-> "", v |-> metadata.structure]
            ELSE IF loop[k - 1].exc # "" THEN loop[k - 1]
            ELSE _set_value(loop[k - 1].v, metadata.paths[k], text_lines[k])
        dumped(last) == [exc |-> last.exc, structure |-> last.v,
                         text |-> IF last.exc = "" THEN json_dumps(last.v) ELSE <<>>]
    IN  dumped(loop[n])

(***************************************************************************)
(* core/parsers.py: HTMLExtractor and HTMLParser                           *)
(*                                                                         *)
(* html.parser.HTMLParser is an external collaborator.  In the documents   *)
(* of this model every '<' opens a start tag or an end tag that a '>'      *)
(* closes, and there is no '&': feed then reports each tag, and each run   *)
(* of characters between two tags as one handle_data call.                 *)
(***************************************************************************)
\* the events of extractor.feed(content), in order
HtmlEvents(s) ==
    LET n == Len(s)
        tag(i, j) ==
            LET inner == Slice(s, i + 1, j)
                k == RunEnd(inner, 1, Letter \cup Digit)
            IN  IF CharAt(inner, 0) = "/"
                THEN [kind |-> "endtag", tag |-> LowerStr(Slice(inner, 1, k)),
                      attrs |-> <<>>, data |-> <<>>, raw |-> Slice(s, i, j + 1)]
                ELSE [kind |-> "starttag", tag |-> LowerStr(Slice(inner, 0, RunEnd(inner, 0, Letter \cup Digit))),
                      attrs |-> Strip(SliceFrom(inner, RunEnd(inner, 0, Letter \cup Digit))),
                      data |-> <<>>, raw |-> Slice(s, i, j + 1)]
        text(i, j) == [kind |-> "data", tag |-> <<>>, attrs |-> <<>>,
                       data |-> Slice(s, i, j), raw |-> Slice(s, i, j)]
        from[pos \in 0..n] ==
            IF pos = n THEN <<>>
            ELSE IF CharAt(s, pos) = "<"
            THEN LET j == Find(s, <<">">>, pos) IN <<tag(pos, j)>> \o from[j + 1]
            ELSE LET lt == Find(s, <<"<">>, pos)
                     j == IF lt < 0 THEN n ELSE lt
                 IN  <<text(pos, j)>> \o from[j]
    IN  from[0]

\* HTMLExtractor: handle_starttag, handle_endtag, handle_data over the events
\* of feed, then get_results
HTMLExtractor(c) ==
    LET events == HtmlEvents(c)
        \* the text gathered since the last tag becomes a segment
        flushed(st) ==
            LET text == Strip(Join(<<>>, st.current_text))
            IN  IF st.current_text = <<>> \/ text = <<>> THEN st
                ELSE [st EXCEPT !.texts = Append(st.texts, text),
                                !.tag_positions = Append(st.tag_positions,
                                                         <<Len(st.texts), st.tag_stack>>)]
        run[k \in 0..Len(events)] ==
            IF k = 0
            THEN [texts |-> <<>>, current_text |-> <<>>, tag_stack |-> <<>>, tag_positions |-> <<>>]
            ELSE LET st == run[k - 1]
                     e == events[k]
                     f == [flushed(st) EXCEPT !.current_text = <<>>]
                 IN  IF e.kind = "starttag"
                     THEN [f EXCEPT !.tag_stack = Append(f.tag_stack, <<e.tag, e.attrs>>)]
                     ELSE IF e.kind = "endtag"
                     THEN IF f.tag_stack # <<>> /\ f.tag_stack[Len(f.tag_stack)][1] = e.tag
                          THEN [f EXCEPT !.tag_stack = SubSeq(f.tag_stack, 1, Len(f.tag_stack) - 1)]
                          ELSE f
                     ELSE IF Strip(e.data) # <<>>
                     THEN [st EXCEPT !.current_text = Append(st.current_text, e.data)]
                     ELSE st
    IN  flushed(run[Len(events)])

\* HTMLParser.parse
HTMLParser_parse(c) ==
    LET results(extractor) ==
            [exc |-> "", msg |-> "", text |-> Join(<<NL>>, extractor.texts),
             metadata |-> [empty |-> FALSE, structure |-> JNull, paths |-> <<>>,
                           original_content |-> c,
                           text_positions |-> extractor.tag_positions]]
    IN  results(HTMLExtractor(c))

\* html.escape(s), quote=True
html_escape(s) ==
    LET esc(ch) == IF ch = "&" THEN <<"&","a","m","p",";">>
                   ELSE IF ch = "<" THEN <<"&","l","t",";">>
                   ELSE IF ch = ">" THEN <<"&","g","t",";">>
                   ELSE IF ch = "\"" THEN <<"&","q","u","o","t",";">>
                   ELSE IF ch = "'" THEN <<"&","#","x","2","7",";">>
                   ELSE <<ch>>
        walk[k \in 0..Len(s)] == IF k = 0 THEN <<>> ELSE walk[k - 1] \o esc(s[k])
    IN  walk[Len(s)]

\* HTMLParser.reconstruct
HTMLParser_reconstruct(text, metadata) ==
    [exc |-> "", structure |-> JNull, text |-> html_escape(text)]

\* parser.reconstruct(text, metadata) of the parser of content_type
reconstruct(content_type, text, metadata) ==
    IF content_type = "json" THEN JSONParser_reconstruct(text, metadata)
    ELSE IF content_type = "html" THEN HTMLParser_reconstruct(text, metadata)
    ELSE [exc |-> "", structure |-> JNull, text |-> text]

(***************************************************************************)
(* core/pipeline.py: SanitizationPipeline.process                          *)
(***************************************************************************)
\* SanitizerConfig(**config)
SanitizerConfig(cfg) == [cfg EXCEPT !.whitelist = normalize_whitelist(cfg.whitelist)]

\* the detections of the regex detector as process turns them into dicts
RegexDicts(text) ==
    LET dicts(regex_detections) ==
            [i \in DOMAIN regex_detections |->
                [type |-> regex_detections[i].type, text |-> regex_detections[i].text,
                 start |-> regex_detections[i].start, end |-> regex_detections[i].end,
                 confidence |-> 100, source |-> "regex"]]
    IN  dicts(RegexDetector_detect(text))

\* the detections of the NER detector as process turns them into dicts
NerDicts(nerm, text, threshold) ==
    LET dicts(ner_detections) ==
            [i \in DOMAIN ner_detections |->
                [type |-> ner_detections[i].type, text |-> ner_detections[i].text,
                 start |-> ner_detections[i].start, end |-> ner_detections[i].end,
                 confidence |-> ner_detections[i].confidence, source |-> "ner"]]
    IN  dicts(NERDetector_detect(nerm, text, threshold))

\* a length check that also turns away content of exactly the maximum length
exceeds_maximum_inclusive(c, max_input_characters) == Len(c) >= max_input_characters

\* SanitizationPipeline.process: if len(content) > self.config.max_input_characters
exceeds_maximum(c, max_input_characters) == Len(c) > max_input_characters

\* SanitizationPipeline.__init__: the detectors the pipeline constructs
regex_detector(cfg) == IF cfg.enable_regex THEN "RegexDetector" ELSE "None"
ner_detector(cfg) == IF cfg.enable_ner THEN "NERDetector" ELSE "None"

\* a pipeline that runs the NER detector whatever the configuration says
runs_ner_always(cfg) == TRUE

\* SanitizationPipeline.process: if self.config.enable_regex and self.regex_detector
runs_regex(cfg) == cfg.enable_regex /\ regex_detector(cfg) # "None"

\* SanitizationPipeline.process: if self.config.enable_ner and self.ner_detector
runs_ner(cfg) == cfg.enable_ner /\ ner_detector(cfg) # "None"

\* SanitizationPipeline.process up to parser.parse(content): the length check,
\* the choice of the parser, and what parse returns or raises
parsed_content(cfg, c, content_type) ==
    IF exceeds_maximum(c, cfg.max_input_characters)
    THEN [exc |-> "ValueError", msg |-> "Input exceeds maximum length",
          text |-> <<>>, metadata |-> NoMetadata]
    ELSE IF content_type = "json" THEN JSONParser_parse(c)
    ELSE IF content_type = "html" THEN HTMLParser_parse(c)
    ELSE PlainTextParser_parse(c)

\* SanitizationPipeline.process
process(cfg, nerm, c, content_type) ==
    LET all_detections(text) ==
            (IF runs_regex(cfg) THEN RegexDicts(text) ELSE <<>>)
            \o (IF runs_ner(cfg) THEN NerDicts(nerm, text, cfg.confidence_threshold) ELSE <<>>)
        filtered_detections(text) ==
            StableSort(_apply_whitelist(cfg.whitelist, all_detections(text)),
                       LAMBDA x, y : x.start < y.start)
        \* what follows parser.parse(content)
        detect(parsed) ==
            IF parsed.exc # ""
            THEN [exc |-> parsed.exc, msg |-> parsed.msg,
                  text |-> <<>>, detections |-> <<>>, metadata |-> NoMetadata]
            ELSE [exc |-> "", msg |-> "", text |-> parsed.text,
                  detections |-> filtered_detections(parsed.text), metadata |-> parsed.metadata]
    IN  detect(parsed_content(cfg, c, content_type))

(***************************************************************************)
(* core/sanitizer.py                                                       *)
(***************************************************************************)
\* what a call leaves when it raises: no masked text and no map are returned
Raised(exc, msg) ==
    [raised |-> TRUE, exc |-> exc, msg |-> msg, masked_text |-> <<>>, rehydration_map |-> <<>>,
     text |-> <<>>, detections |-> <<>>, unique_detections |-> <<>>, emitted |-> <<>>,
     parsed |-> JNull, structure |-> JNull]

\* a call that has returned, before its results are filled in
NoResult == [Raised("", "") EXCEPT !.raised = FALSE]

\* sanitize, from the return of pipeline.process on: p is what process
\* returned or raised
after_process(sanitizer_config, content_type, p) ==
    LET \* what follows parser.reconstruct(masked_text, parser_metadata)
        returned(unique_detections, m, rebuild, r) ==
            IF rebuild /\ r.exc = "ValueError" THEN Raised("ValueError", "invalid literal for int()")
            ELSE IF rebuild /\ r.exc # "" THEN Raised("RuntimeError", "Sanitization failed")
            ELSE [raised |-> FALSE, exc |-> "", msg |-> "",
                  masked_text |-> IF rebuild THEN r.text ELSE m.masked_text,
                  rehydration_map |-> m.rehydration_map,
                  text |-> p.text, detections |-> p.detections,
                  unique_detections |-> unique_detections, emitted |-> m.emitted,
                  parsed |-> p.metadata.structure,
                  structure |-> IF rebuild THEN r.structure ELSE JNull]
        \* what follows masking_engine.mask_text(text, unique_detections)
        masked(unique_detections, m) ==
            returned(unique_detections, m, content_type # "text" /\ ~p.metadata.empty,
                     reconstruct(content_type, m.masked_text, p.metadata))
        \* what follows pipeline.deduplicate_detections(detections)
        deduplicated(unique_detections) ==
            masked(unique_detections,
                   mask_text(sanitizer_config.placeholder_prefix,
                             sanitizer_config.placeholder_suffix, p.text, unique_detections))
    IN  IF p.exc # "" THEN Raised(p.exc, p.msg)
        ELSE deduplicated(deduplicate_detections(p.detections))

\* sanitize(text, config, content_type): the returned pair, or the exception,
\* and the values computed on the way
sanitize(c, config_dict, content_type, nerm) ==
    LET configured(sanitizer_config) ==
            after_process(sanitizer_config, content_type,
                          process(sanitizer_config, nerm, c, content_type))
    IN  configured(SanitizerConfig(config_dict))

\* NERDetector.pipeline: whether detect gets as far as reading the property.
\* SanitizationPipeline.__init__ makes a new NERDetector, whose _pipeline is
\* None, so the first read of the property calls _load_model
reads_pipeline(cfg, p) == runs_ner(cfg) /\ p.exc = "" /\ p.text # <<>>

\* the model loads one sanitize call performs; a failing outcome without
\* entities is a load or a call that raised, counted as no load
loads_in_call(cfg, nerm, c, content_type) ==
    LET counted(p) ==
            IF reads_pipeline(cfg, p) /\ ~(nerm.fails /\ nerm.labels = <<>>) THEN 1 ELSE 0
    IN  counted(parsed_content(SanitizerConfig(cfg), c, content_type))

\* rehydrate(masked_text, rehydration_map)
rehydrate(masked_text, rehydration_map) ==
    IF ~validate_rehydration_map(DefaultPrefix, DefaultSuffix, rehydration_map)
    THEN [raised |-> TRUE, exc |-> "ValueError", msg |-> "Invalid rehydration map format",
          text |-> <<>>]
    ELSE [raised |-> FALSE, exc |-> "", msg |-> "",
          text |-> rehydrate_text(masked_text, rehydration_map)]

(***************************************************************************)
(* The class API: maskingengine/sanitizer.py with config.py, detectors.py  *)
(* and masker.py.  Only the plain-text path is modelled: the JSON and HTML *)
(* paths go through maskingengine/parsers.py, which is not in the source.  *)
(* The texts of this model hold no digit, so of Config.PATTERNS only EMAIL *)
(* matches.                                                                *)
(***************************************************************************)
MAX_TEXT_LENGTH == 1000000

\* Config.PATTERNS['EMAIL'] tried at offset i: the end of the match, -1 when
\* there is none; the pattern has no \b
Config_EMAIL_match(s, i) ==
    LET k == RunEnd(s, i, EmailLocalCh)
        e == RunEnd(s, k + 1, EmailDomainCh)
        dots == {d \in (k + 2)..(e - 1) :
                    CharAt(s, d) = "." /\ RunEnd(s, d + 1, Letter) >= d + 3}
    IN  IF k = i \/ CharAt(s, k) # "@" \/ dots = {} THEN -1
        ELSE RunEnd(s, (CHOOSE x \in dots : \A y \in dots : y <= x) + 1, Letter)

\* detectors.RegexDetector.detect
Class_RegexDetector_detect(text) ==
    LET emails == FindIter(text, Config_EMAIL_match)
    IN  [i \in DOMAIN emails |->
            [type |-> T_EMAIL, text |-> Slice(text, emails[i][1], emails[i][2]),
             start |-> emails[i][1], end |-> emails[i][2]]]

\* what spacy.load does when detectors.NERDetector.model calls it
ModelLoads == {"ok", "ImportError", "OSError", "ValueError", "RuntimeError"}

\* detectors.NERDetector.model followed by detectors.NERDetector.detect:
\* ImportError and OSError leave the model None, any other exception
\* leaves the property
Class_NERDetector_detect(nerm, text) ==
    LET ents == NerPipeline(nerm, text)
        kept == SelectSeq(ents, LAMBDA e : /\ e.entity_group \in {T_PERSON, G_ORG, <<"G","P","E">>}
                                           /\ Len(Strip(e.word)) > 2)
        _has_potential_entities ==
            \E i \in 0..(Len(text) - 2) :
                Boundary(text, i) /\ CharAt(text, i) \in Upper /\ CharAt(text, i + 1) \in Lower
    IN  IF nerm.load \in {"ValueError", "RuntimeError"}
        THEN [exc |-> nerm.load, detections |-> <<>>]
        ELSE IF nerm.load \in {"ImportError", "OSError"} THEN [exc |-> "", detections |-> <<>>]
        ELSE IF Len(text) < 10 \/ ~_has_potential_entities THEN [exc |-> "", detections |-> <<>>]
        ELSE [exc |-> "",
              detections |-> [i \in DOMAIN kept |->
                                 [type |-> kept[i].entity_group, text |-> kept[i].word,
                                  start |-> kept[i].start, end |-> kept[i].end]]]

\* detectors.Detector._get_type_priority, for the types of this model
T_PHONE == <<"P","H","O","N","E">>

_get_type_priority(pii_type) ==
    IF pii_type \in {T_EMAIL, <<"S","S","N">>, T_CREDIT_CARD} THEN 10
    ELSE IF pii_type \in {T_PHONE, <<"P","H","O","N","E","_","U","S">>,
                          <<"I","P","V","4">>, <<"I","P","V","6">>} THEN 8
    ELSE IF pii_type \in {T_PERSON, <<"O","R","G">>, T_ORGANIZATION, <<"G","P","E">>,
                          T_LOCATION} THEN 5
    ELSE 1

\* detectors.Detector._deduplicate
Detector__deduplicate(detections) ==
    LET sorted_detections ==
            StableSort(detections,
                LAMBDA x, y : \/ x.start < y.start
                              \/ /\ x.start = y.start
                                 /\ _get_type_priority(x.type) < _get_type_priority(y.type))
        keep[n \in 0..Len(sorted_detections)] ==
            \* <<result, last_end>> after the first n detections
            IF n = 0 THEN <<(<<>>), -1>>
            ELSE LET prev == keep[n - 1]
                     detection == sorted_detections[n]
                     result == prev[1]
                 IN  IF detection.start >= prev[2]
                     THEN <<Append(result, detection), detection.end>>
                     ELSE IF result # <<>>
                             /\ _get_type_priority(detection.type)
                                    > _get_type_priority(result[Len(result)].type)
                     THEN <<[result EXCEPT ![Len(result)] = detection], detection.end>>
                     ELSE prev
    IN  keep[Len(sorted_detections)][1]

\* detectors.Detector.detect_all, Config.NER_ENABLED being True
Detector_detect_all(nerm, text) ==
    LET combined(ner_detections) ==
            IF ner_detections.exc # "" THEN ner_detections
            ELSE [exc |-> "",
                  detections |-> Detector__deduplicate(Class_RegexDetector_detect(text)
                                                       \o ner_detections.detections)]
    IN  combined(Class_NERDetector_detect(nerm, text))

\* Config.TYPE_HASHES
TYPE_HASHES(normalized_type) ==
    IF normalized_type = T_EMAIL THEN <<"7","A","9","B","2","C">>
    ELSE IF normalized_type = T_PERSON THEN <<"9","E","4","C","6","A">>
    ELSE IF normalized_type = T_ORGANIZATION THEN <<"1","B","8","D","3","F">>
    ELSE IF normalized_type = T_LOCATION THEN <<"5","A","2","E","9","C">>
    ELSE <<"X","X","X","X","X","X">>

\* masker.Masker._get_placeholder
_get_placeholder(pii_type) ==
    LET named(normalized_type) ==
            <<"<","<">> \o normalized_type \o <<"_">> \o TYPE_HASHES(normalized_type) \o <<">",">">>
    IN  named(IF pii_type = G_ORG THEN T_ORGANIZATION
              ELSE IF pii_type = <<"G","P","E">> THEN T_LOCATION ELSE pii_type)

\* masker.Masker.mask
Masker_mask(text, detections) ==
    LET sorted_detections == StableSort(detections, LAMBDA x, y : x.start > y.start)
        loop[k \in 0..Len(sorted_detections)] ==
            IF k = 0 THEN text
            ELSE Slice(loop[k - 1], 0, sorted_detections[k].start)
                 \o _get_placeholder(sorted_detections[k].type)
                 \o SliceFrom(loop[k - 1], sorted_detections[k].end)
    IN  loop[Len(sorted_detections)]

\* Sanitizer.sanitize: except ValueError: raise; except Exception: return
\* str(input_data)
on_exception(input_data, exc) ==
    IF exc = "ValueError" THEN Raised(exc, "")
    ELSE [NoResult EXCEPT !.masked_text = input_data]

\* Sanitizer.sanitize(input_data, "text"), input_data a str
Sanitizer_sanitize(input_data, nerm) ==
    LET \* Sanitizer._sanitize_text
        _sanitize_text(detected) ==
            IF detected.exc # "" THEN on_exception(input_data, detected.exc)
            ELSE [NoResult EXCEPT !.masked_text = Masker_mask(input_data, detected.detections),
                                  !.detections = detected.detections]
    IN  IF Len(input_data) > MAX_TEXT_LENGTH THEN Raised("ValueError", "Input too large")
        ELSE _sanitize_text(Detector_detect_all(nerm, input_data))

(***************************************************************************)
(* Inputs                                                                  *)
(***************************************************************************)
\* two e-mail addresses with the same first 8 hex digits of SHA-256
Email1 == <<"l","x","r","@","b",".","c","o">>
Email2 == <<"h","v","w","r","@","b",".","c","o">>
Name1 == <<"A","l">>
Name2 == <<"B","o">>

\* the pieces a plain text is made of; each ends with white space
Pieces == {
    Email1 \o <<" ">>,
    Email2 \o <<" ">>,
    DefaultPrefix \o T_EMAIL \o <<"_">> \o <<"c","e","f","c","3","2","9","7">> \o DefaultSuffix \o <<" ">>,
    <<"t","o"," ">>,
    Name1 \o <<" ">>,
    Name2 \o <<NL>> }

MaxPieces == 2

RECURSIVE Concats(_, _)
Concats(S, n) ==
    IF n = 0 THEN {<<>>}
    ELSE LET prev == Concats(S, n - 1) IN prev \cup {c \o p : c \in prev, p \in S}

TextContents == Concats(Pieces, MaxPieces)

\* SanitizerConfig(): the defaults of core/config.py
DefaultConfig ==
    [enable_regex |-> TRUE, enable_ner |-> TRUE, confidence_threshold |-> 85,
     whitelist |-> <<>>, placeholder_prefix |-> DefaultPrefix, placeholder_suffix |-> DefaultSuffix,
     max_input_characters |-> 50000]

RegexOnly == [DefaultConfig EXCEPT !.enable_ner = FALSE]

SmallMax == 10

TextConfigs == {
    DefaultConfig,
    RegexOnly,
    [DefaultConfig EXCEPT !.enable_regex = FALSE],
    [DefaultConfig EXCEPT !.confidence_threshold = 90],
    [RegexOnly EXCEPT !.placeholder_prefix = <<"{","{">>, !.placeholder_suffix = <<"}","}">>],
    [DefaultConfig EXCEPT !.whitelist = << Name1 \o <<" ">> \o Name2 >>],
    [RegexOnly EXCEPT !.whitelist = << <<"B",".","c","o">> >>],
    [RegexOnly EXCEPT !.max_input_characters = SmallMax] }

\* what the external model may say about one capitalised word
NerLabels == {"O", <<G_PER, 90>>, <<G_PER, 80>>, <<G_LOC, 90>>, <<G_MISC, 95>>}

NoNer == [fails |-> FALSE, labels |-> <<>>]

NerOutcomes(cfg, c) ==
    IF ~cfg.enable_ner THEN {NoNer}
    ELSE {[fails |-> f, labels |-> l] :
             f \in BOOLEAN, l \in [1..Len(NameTokens(c)) -> NerLabels]}

(***************************************************************************)
(* JSON documents                                                          *)
(***************************************************************************)
JsonLeaves == {JStr(Email1), JStr(<<"x", NL, "y">>), JNum(5)}
JsonKeys == {<<"a">>, <<"0">>}

MaxDepth == 2

\* the documents nested at most depth deep: a container holds one document,
\* or a leaf and then a document
RECURSIVE JsonDocs(_)
JsonDocs(depth) ==
    IF depth = 0 THEN JsonLeaves
    ELSE LET sub == JsonDocs(depth - 1)
         IN  sub
             \cup {JList(<<x>>) : x \in sub}
             \cup {JList(<<l, x>>) : l \in JsonLeaves, x \in sub}
             \cup {JDict(<<[k |-> k1, v |-> x]>>) : k1 \in JsonKeys, x \in sub}
             \cup {JDict(<<[k |-> kv[1], v |-> l], [k |-> kv[2], v |-> x]>>) :
                      kv \in {y \in JsonKeys \X JsonKeys : y[1] # y[2]},
                      l \in JsonLeaves, x \in sub}

\* texts that json.loads rejects: a document without its last character
InvalidJson == {LET d == json_dumps(x) IN Slice(d, 0, Len(d) - 1) : x \in JsonDocs(1)}

JsonContents == {json_dumps(x) : x \in JsonDocs(MaxDepth)} \cup InvalidJson

JsonConfigs == {RegexOnly, [RegexOnly EXCEPT !.max_input_characters = SmallMax]}

(***************************************************************************)
(* 16-digit numbers                                                        *)
(***************************************************************************)
CardBases == {<<"4","1","1","1","1","1","1","1","1","1","1","1","1","1","1","1">>,
              <<"5","5","0","0","0","0","0","0","0","0","0","0","0","0","0","4">>}

\* the number of digits at the end of a base that take every value
CardFree == 2

Tails(n) == Concats({<<x>> : x \in Digit}, n) \ Concats({<<x>> : x \in Digit}, n - 1)

CardNumbers == {Slice(b, 0, 16 - CardFree) \o t : b \in CardBases, t \in Tails(CardFree)}

ValidCard == <<"4","1","1","1","1","1","1","1","1","1","1","1","1","1","1","1">>

CardContents ==
    {n : n \in CardNumbers}
    \cup {<<"t","o"," ">> \o n \o <<" ">> \o ValidCard : n \in CardNumbers}
    \cup {n \o <<"x">> : n \in CardNumbers}

(***************************************************************************)
(* The caller: one sanitize call, then rehydrate on what it returned       *)
(***************************************************************************)
NoOut == NoResult
NoRestored == [raised |-> FALSE, exc |-> "", msg |-> "", text |-> <<>>]

\* the placeholders a call synthesized, with the affixes it was configured with
Synthesized(cfg, o) ==
    {[prefix |-> cfg.placeholder_prefix, suffix |-> cfg.placeholder_suffix,
      type |-> o.emitted[i].type, text |-> o.emitted[i].text,
      placeholder |-> o.emitted[i].placeholder,
      call |-> calls + 1, start |-> o.emitted[i].start] : i \in DOMAIN o.emitted}

Start(c, t, cfg, nerm) ==
    /\ pc = "new"
    /\ content = c
    /\ ctype = t
    /\ config = cfg
    /\ ner = nerm
    /\ out = NoOut
    /\ restored = NoRestored
    /\ calls = 0
    /\ history = {}
    /\ loads = 0
    /\ workers = <<>>

InitText ==
    \E c \in TextContents : \E cfg \in TextConfigs : \E nerm \in NerOutcomes(cfg, c) :
        Start(c, "text", cfg, nerm)

InitJson == \E c \in JsonContents : \E cfg \in JsonConfigs : Start(c, "json", cfg, NoNer)

InitCard == \E c \in CardContents : Start(c, "text", RegexOnly, NoNer)

\* content_type arguments that are not a key of SanitizationPipeline.parsers
UnknownFormats == {"xml", "JSON"}

UnknownContents ==
    {Email1 \o <<" ">>, <<"t","o"," ">>,
     json_dumps(JDict(<<[k |-> <<"a">>, v |-> JStr(Email1)]>>)),
     json_dumps(JList(<<JStr(Email1)>>))}

InitUnknown ==
    \E c \in UnknownContents : \E t \in UnknownFormats :
        \E cfg \in {RegexOnly, [RegexOnly EXCEPT !.max_input_characters = SmallMax]} :
            Start(c, t, cfg, NoNer)

\* texts with two names, one, two and four characters apart
NameContents ==
    {Name1 \o <<" ">> \o Name2 \o <<" ">>, Name1 \o <<"-">> \o Name2 \o <<NL>>,
     Name1 \o <<" ", " ">> \o Name2 \o <<" ">>, Name2 \o <<" ","t","o"," ">> \o Name1}

InitNames ==
    \E c \in NameContents : \E l \in [1..Len(NameTokens(c)) -> NerLabels] :
        \E cfg \in {DefaultConfig, [DefaultConfig EXCEPT !.confidence_threshold = 75]} :
            Start(c, "text", cfg, [fails |-> FALSE, labels |-> l])

\* calls with a detector switched off, on texts about which the NER model
\* would have had something to say
FlagContents == {Name1 \o <<" ">> \o Email1 \o <<" ">>, Email1 \o <<" ">> \o Name1 \o <<" ">>,
                 Name1 \o <<" ">>}

FlagConfigs == {RegexOnly, [DefaultConfig EXCEPT !.enable_regex = FALSE],
                [RegexOnly EXCEPT !.enable_regex = FALSE]}

InitFlags ==
    \E c \in FlagContents : \E cfg \in FlagConfigs :
        \E l \in [1..Len(NameTokens(c)) -> NerLabels] :
            Start(c, "text", cfg, [fails |-> FALSE, labels |-> l])

\* HTML documents: tags, one of them with an attribute, and text nodes
HtmlPieces == {<<"<","p",">">>, <<"<","/","p",">">>,
               <<"<","b"," ","c","=","\"","d","\"",">">>,
               Email1 \o <<" ">>, <<"t","o"," ">>}

MaxHtmlPieces == 3

HtmlContents == Concats(HtmlPieces, MaxHtmlPieces)

InitHtml == \E c \in HtmlContents : Start(c, "html", RegexOnly, NoNer)

\* the texts handed to the class API
ClassPieces == {Email1 \o <<" ">>, <<"t","o"," ">>, Name1 \o <<" ">>,
                <<"A","n","n","a"," ">>, <<"a","t"," ","A","c","m","e"," ">>}

MaxClassPieces == 2

ClassContents == Concats(ClassPieces, MaxClassPieces)

\* what spaCy may say about one capitalised word
ClassLabels == {"O", <<T_PERSON, 100>>, <<G_ORG, 100>>, <<<<"D","A","T","E">>, 100>>}

InitClass ==
    \E c \in ClassContents : \E l \in ModelLoads :
        \E labels \in [1..Len(NameTokens(c)) -> ClassLabels] :
            /\ pc = "class_new"
            /\ content = c
            /\ ctype = "text"
            /\ config = RegexOnly
            /\ ner = [fails |-> FALSE, labels |-> labels, load |-> l]
            /\ out = NoOut
            /\ restored = NoRestored
            /\ calls = 0
            /\ history = {}
            /\ loads = 0
            /\ workers = <<>>

Init ==
    InitText \/ InitJson \/ InitCard \/ InitUnknown \/ InitFlags \/ InitNames \/ InitHtml
    \/ InitClass

\* sanitize(content, config, ctype)
Sanitize ==
    /\ pc = "new"
    /\ out' = sanitize(content, config, ctype, ner)
    /\ pc' = IF out'.raised THEN "failed" ELSE "done"
    /\ calls' = calls + 1
    /\ history' = history \cup Synthesized(config, out')
    /\ loads' = loads + loads_in_call(config, ner, content, ctype)
    /\ UNCHANGED <<content, ctype, config, ner, restored, workers>>

\* rehydrate(masked_text, rehydration_map) on the pair sanitize returned
Rehydrate ==
    /\ pc = "done"
    /\ restored' = rehydrate(out.masked_text, out.rehydration_map)
    /\ pc' = IF restored'.raised THEN "rehydrate_failed" ELSE "rehydrated"
    /\ UNCHANGED <<content, ctype, config, ner, out, calls, history, loads, workers>>

\* Sanitizer().sanitize(content, "text")
ClassSanitize ==
    /\ pc = "class_new"
    /\ out' = Sanitizer_sanitize(content, ner)
    /\ pc' = IF out'.raised THEN "class_failed" ELSE "class_done"
    /\ UNCHANGED <<content, ctype, config, ner, restored, calls, history, loads, workers>>

Next == Sanitize \/ Rehydrate \/ ClassSanitize

Spec == Init /\ [][Next]_vars

(***************************************************************************)
(* A caller that makes several sanitize calls, one after the other         *)
(***************************************************************************)
MaxCalls == 2

CallContents == Concats({Email1 \o <<" ">>, Name1 \o <<" ">>}, 2)

CallConfigs == {DefaultConfig,
                [DefaultConfig EXCEPT !.placeholder_prefix = <<"{","{">>,
                                      !.placeholder_suffix = <<"}","}">>]}

CallNerOutcomes(c) ==
    {[fails |-> FALSE, labels |-> l] :
        l \in [1..Len(NameTokens(c)) -> {"O", <<G_PER, 90>>, <<G_LOC, 90>>}]}

InitCalls ==
    \E c \in CallContents : \E cfg \in CallConfigs : \E nerm \in CallNerOutcomes(c) :
        Start(c, "text", cfg, nerm)

\* the caller turns to the next content
NewCall ==
    /\ pc \in {"done", "failed"}
    /\ calls < MaxCalls
    /\ \E c \in CallContents : \E cfg \in CallConfigs : \E nerm \in CallNerOutcomes(c) :
          /\ content' = c
          /\ config' = cfg
          /\ ner' = nerm
    /\ pc' = "new"
    /\ out' = NoOut
    /\ UNCHANGED <<ctype, restored, calls, history, loads, workers>>

NextCalls == Sanitize \/ NewCall

SpecCalls == InitCalls /\ [][NextCalls]_vars

(***************************************************************************)
(* Workers that call sanitize concurrently with one shared configuration   *)
(***************************************************************************)
NumWorkers == 2

Workers == 1..NumWorkers

WorkerContents == {<<>>, Email1 \o <<" ">>, Name1 \o <<" ">>}

WorkerConfigs == {DefaultConfig, RegexOnly}

NoProcessed == [exc |-> "", msg |-> "", text |-> <<>>, detections |-> <<>>, metadata |-> NoMetadata]

\* a worker about to call sanitize(c, config) for the first time
NewWorker(c, nerm) ==
    [pc |-> "new", content |-> c, ner |-> nerm, sanitizer_config |-> DefaultConfig,
     _pipeline |-> "no detector", processed |-> NoProcessed, out |-> NoOut]

\* what the model says of every capitalised word of a worker's text
WorkerTags == {"O", "PER", "LOC"}

WorkerNer(cfg, c, tag) ==
    IF ~cfg.enable_ner THEN NoNer
    ELSE [fails |-> FALSE,
          labels |-> [k \in 1..Len(NameTokens(c)) |->
                         IF tag = "PER" THEN <<G_PER, 90>>
                         ELSE IF tag = "LOC" THEN <<G_LOC, 90>> ELSE "O"]]

InitWorkers ==
    \E cfg \in WorkerConfigs : \E ins \in [Workers -> WorkerContents \X WorkerTags] :
        /\ pc = "workers"
        /\ content = <<>>
        /\ ctype = "text"
        /\ config = cfg
        /\ ner = NoNer
        /\ out = NoOut
        /\ restored = NoRestored
        /\ calls = 0
        /\ history = {}
        /\ loads = 0
        /\ workers = [w \in Workers |->
                         NewWorker(ins[w][1], WorkerNer(cfg, ins[w][1], ins[w][2]))]

\* one slot for what process returned, which every call reads
shared_processed(w) == workers[1].processed

\* the values pipeline.process returned to the call of worker w: locals of
\* that call
own_processed(w) == workers[w].processed

\* sanitize up to the construction of the pipeline, whose NERDetector starts
\* with _pipeline = None
Construct(w) ==
    /\ workers[w].pc = "new"
    /\ workers' = [workers EXCEPT ![w].pc = "constructed",
                                  ![w].sanitizer_config = SanitizerConfig(config),
                                  ![w]._pipeline = IF config.enable_ner THEN "None"
                                                   ELSE "no detector"]
    /\ UNCHANGED <<pc, content, ctype, config, ner, out, restored, calls, history, loads>>

\* the worker's call needs the NER model
NeedsModel(w) ==
    reads_pipeline(workers[w].sanitizer_config,
                   parsed_content(workers[w].sanitizer_config, workers[w].content, ctype))

\* NERDetector.pipeline: self._pipeline is None, so _load_model is entered
EnterLoad(w) ==
    /\ workers[w].pc = "constructed"
    /\ NeedsModel(w)
    /\ workers[w]._pipeline = "None"
    /\ workers' = [workers EXCEPT ![w].pc = "loading"]
    /\ UNCHANGED <<pc, content, ctype, config, ner, out, restored, calls, history, loads>>

\* NERDetector._load_model: the model is loaded and kept in self._pipeline
LoadModel(w) ==
    /\ workers[w].pc = "loading"
    /\ workers' = [workers EXCEPT ![w].pc = "loaded", ![w]._pipeline = "Pipeline"]
    /\ loads' = loads + 1
    /\ UNCHANGED <<pc, content, ctype, config, ner, out, restored, calls, history>>

\* pipeline.process(text, content_type) returns or raises
Process(w) ==
    /\ \/ workers[w].pc = "loaded"
       \/ workers[w].pc = "constructed" /\ ~NeedsModel(w)
    /\ workers' = [workers EXCEPT
                      ![w].pc = "processed",
                      ![w].processed = process(workers[w].sanitizer_config, workers[w].ner,
                                               workers[w].content, ctype)]
    /\ UNCHANGED <<pc, content, ctype, config, ner, out, restored, calls, history, loads>>

\* the rest of sanitize: deduplicate, mask, reconstruct, return
Return(w) ==
    /\ workers[w].pc = "processed"
    /\ workers' = [workers EXCEPT
                      ![w].pc = "done",
                      ![w].out = after_process(workers[w].sanitizer_config, ctype,
                                               own_processed(w))]
    /\ UNCHANGED <<pc, content, ctype, config, ner, out, restored, calls, history, loads>>

NextWorkers ==
    \E w \in Workers :
        Construct(w) \/ EnterLoad(w) \/ LoadModel(w) \/ Process(w) \/ Return(w)

SpecWorkers == InitWorkers /\ [][NextWorkers]_vars

(***************************************************************************)
(* A caller that hands rehydrate a text and a map of its own               *)
(***************************************************************************)
Hash1 == <<"c","e","f","c","3","2","9","7">>

\* keys with and without the delimiters, and keys between the delimiters
\* that are not KIND_HEXHASH
GivenKeys == {
    DefaultPrefix \o T_EMAIL \o <<"_">> \o Hash1 \o DefaultSuffix,
    T_EMAIL \o <<"_">> \o Hash1,
    DefaultPrefix \o T_EMAIL \o <<"_">> \o Hash1,
    T_EMAIL \o <<"_">> \o Hash1 \o DefaultSuffix,
    DefaultPrefix \o <<"x">> \o DefaultSuffix,
    DefaultPrefix \o T_EMAIL \o <<"_">> \o <<"1","2">> \o DefaultSuffix }

GivenValues == {Email1, <<"y">>} \cup NotStr

MaxEntries == 2

\* the dicts of at most n entries
RECURSIVE GivenMaps(_)
GivenMaps(n) ==
    IF n = 0 THEN {<<>>}
    ELSE LET prev == GivenMaps(n - 1)
         IN  prev \cup UNION {{Append(m, <<k, v>>) :
                                  k \in GivenKeys \ DictKeys(m), v \in GivenValues} : m \in prev}

GivenTexts == {<<"t","o"," ">> \o k \o <<" ">> \o k : k \in GivenKeys}

InitGiven ==
    \E t \in GivenTexts : \E m \in GivenMaps(MaxEntries) :
        /\ pc = "given"
        /\ content = <<>>
        /\ ctype = "text"
        /\ config = DefaultConfig
        /\ ner = NoNer
        /\ out = [NoOut EXCEPT !.masked_text = t, !.rehydration_map = m]
        /\ restored = NoRestored
        /\ calls = 0
        /\ history = {}
        /\ loads = 0
        /\ workers = <<>>

\* rehydrate(masked_text, rehydration_map) on the caller's own pair
RehydrateGiven ==
    /\ pc = "given"
    /\ restored' = rehydrate(out.masked_text, out.rehydration_map)
    /\ pc' = IF restored'.raised THEN "rehydrate_failed" ELSE "rehydrated"
    /\ UNCHANGED <<content, ctype, config, ner, out, calls, history, loads, workers>>

NextGiven == RehydrateGiven

SpecGiven == InitGiven /\ [][NextGiven]_vars

(***************************************************************************)
(* A parser used on its own: parse, then reconstruct on what parse gave    *)
(***************************************************************************)
InitParsers ==
    \E t \in {"text", "json", "html"} :
        \E c \in (IF t = "json" THEN JsonContents
                  ELSE IF t = "html" THEN HtmlContents ELSE TextContents) :
            /\ pc = "parser_new"
            /\ content = c
            /\ ctype = t
            /\ config = RegexOnly
            /\ ner = NoNer
            /\ out = NoOut
            /\ restored = NoRestored
            /\ calls = 0
            /\ history = {}
            /\ loads = 0
            /\ workers = <<>>

\* parser.reconstruct(*parser.parse(content)) of the parser of content_type
reparse(c, content_type) ==
    LET rebuilt(parsed, r) ==
            IF r.exc # "" THEN Raised(r.exc, "")
            ELSE [NoResult EXCEPT !.text = parsed.text, !.masked_text = r.text,
                                  !.parsed = parsed.metadata.structure,
                                  !.structure = r.structure]
        reconstructed(parsed) ==
            IF parsed.exc # "" THEN Raised(parsed.exc, parsed.msg)
            ELSE rebuilt(parsed, reconstruct(content_type, parsed.text, parsed.metadata))
    IN  reconstructed(IF content_type = "json" THEN JSONParser_parse(c)
                      ELSE IF content_type = "html" THEN HTMLParser_parse(c)
                      ELSE PlainTextParser_parse(c))

Reparse ==
    /\ pc = "parser_new"
    /\ out' = reparse(content, ctype)
    /\ pc' = IF out'.raised THEN "rejected" ELSE "reparsed"
    /\ UNCHANGED <<content, ctype, config, ner, restored, calls, history, loads, workers>>

NextParsers == Reparse

SpecParsers == InitParsers /\ [][NextParsers]_vars

(***************************************************************************)
(* The masking engine on its own: rehydrate on maps with nested and        *)
(* chained placeholders                                                    *)
(***************************************************************************)
\* placeholders: two of the same length, and one that starts with another
EngineKeys == {<<"<","<","x",">",">">>, <<"<","<","z",">",">">>,
               <<"<","<","x",">",">",">",">">>}

\* originals: a plain one, and one that reads like a placeholder of the map
EngineValues == {<<"y">>, <<"<","<","z",">",">">>}

RECURSIVE EngineMaps(_)
EngineMaps(n) ==
    IF n = 0 THEN {<<>>}
    ELSE LET prev == EngineMaps(n - 1)
         IN  prev \cup UNION {{Append(m, <<k, v>>) :
                                  k \in EngineKeys \ DictKeys(m), v \in EngineValues} : m \in prev}

EnginePieces == {<<"<","<","x",">",">">>, <<">",">">>, <<"<","<","z",">",">">>, <<"t","o"," ">>}

MaxEnginePieces == 2

InitEngineMap ==
    \E t \in Concats(EnginePieces, MaxEnginePieces) : \E m \in EngineMaps(MaxEntries) :
        /\ pc = "given"
        /\ content = <<>>
        /\ ctype = "text"
        /\ config = DefaultConfig
        /\ ner = NoNer
        /\ out = [NoOut EXCEPT !.masked_text = t, !.rehydration_map = m]
        /\ restored = NoRestored
        /\ calls = 0
        /\ history = {}
        /\ loads = 0
        /\ workers = <<>>

(***************************************************************************)
(* The conflict resolvers on their own, on lists of candidates             *)
(***************************************************************************)
\* the segment the candidates were found in
ResolverSegment == <<"a","b","c">>

T_DATE == <<"D","A","T","E">>

\* the candidates of the segment: end > start and text = segment[start..end]
Candidates ==
    {[type |-> t, text |-> Slice(ResolverSegment, span[1], span[2]),
      start |-> span[1], end |-> span[2],
      confidence |-> 100, source |-> IF t = T_PERSON THEN "ner" ELSE "regex"] :
        t \in {T_EMAIL, T_PHONE, T_PERSON, T_DATE},
        span \in {x \in (0..Len(ResolverSegment)) \X (0..Len(ResolverSegment)) : x[1] < x[2]}}

MaxCandidates == 2

RECURSIVE CandidateLists(_)
CandidateLists(n) ==
    IF n = 0 THEN {<<>>}
    ELSE LET prev == CandidateLists(n - 1)
         IN  prev \cup {Append(l, d) : l \in prev, d \in Candidates}

InitResolver ==
    \E detections \in CandidateLists(MaxCandidates) :
        /\ pc = "resolver_new"
        /\ content = ResolverSegment
        /\ ctype = "text"
        /\ config = RegexOnly
        /\ ner = NoNer
        /\ out = [NoOut EXCEPT !.text = ResolverSegment, !.detections = detections]
        /\ restored = NoRestored
        /\ calls = 0
        /\ history = {}
        /\ loads = 0
        /\ workers = <<>>

\* pipeline.deduplicate_detections(detections)
Deduplicate ==
    /\ pc = "resolver_new"
    /\ out' = [out EXCEPT !.unique_detections = deduplicate_detections(out.detections)]
    /\ pc' = "resolved"
    /\ UNCHANGED <<content, ctype, config, ner, restored, calls, history, loads, workers>>

\* Detector()._deduplicate(detections)
ClassDeduplicate ==
    /\ pc = "resolver_new"
    /\ out' = [out EXCEPT !.unique_detections = Detector__deduplicate(out.detections)]
    /\ pc' = "class_resolved"
    /\ UNCHANGED <<content, ctype, config, ner, restored, calls, history, loads, workers>>

NextResolver == Deduplicate \/ ClassDeduplicate

SpecResolver == InitResolver /\ [][NextResolver]_vars

(***************************************************************************)
(* The masking engine on its own: mask_text on lists of disjoint spans     *)
(***************************************************************************)
\* the lists of candidates whose spans are pairwise disjoint, in every order
DisjointLists ==
    {l \in CandidateLists(MaxCandidates) :
        \A i, j \in DOMAIN l : i # j => (l[i].end <= l[j].start \/ l[j].end <= l[i].start)}

InitEngineSpans ==
    \E detections \in DisjointLists :
        /\ pc = "spans"
        /\ content = ResolverSegment
        /\ ctype = "text"
        /\ config = DefaultConfig
        /\ ner = NoNer
        /\ out = [NoOut EXCEPT !.text = ResolverSegment, !.detections = detections]
        /\ restored = NoRestored
        /\ calls = 0
        /\ history = {}
        /\ loads = 0
        /\ workers = <<>>

\* MaskingEngine().mask_text(text, detections)
MaskText ==
    /\ pc = "spans"
    /\ LET returned(m) == [out EXCEPT !.masked_text = m.masked_text,
                                      !.rehydration_map = m.rehydration_map,
                                      !.emitted = m.emitted]
       IN  out' = returned(mask_text(DefaultPrefix, DefaultSuffix, out.text, out.detections))
    /\ pc' = "masked"
    /\ UNCHANGED <<content, ctype, config, ner, restored, calls, history, loads, workers>>

InitEngine == InitEngineMap \/ InitEngineSpans

NextEngine == RehydrateGiven \/ MaskText

SpecEngine == InitEngine /\ [][NextEngine]_vars

(***************************************************************************)
(* The properties                                                          *)
(***************************************************************************)
Returned == pc \in {"done", "rehydrated", "rehydrate_failed"}
RehydrateReturned == pc \in {"rehydrated", "rehydrate_failed"}
Overlaps(d, i, j) == d.start < j /\ i < d.end

\* C1: plain-text round trip.  For every text content sanitize accepts, under
\* any configuration without a whitelist, rehydrate on the pair sanitize
\* returned gives back exactly the content.
C1_PlainTextRoundTrip ==
    (ctype = "text" /\ config.whitelist = <<>> /\ RehydrateReturned)
        => (pc = "rehydrated" /\ restored.text = content)

\* the output a call leaves for a str leaf sanitized on its own
SanitizedLeaf(leaf) == sanitize(leaf, config, "text", ner).masked_text

\* the tree of the output against the tree of the input: the same keys and
\* indices, every str leaf sanitized in place, every other leaf as it was
RECURSIVE WrittenBack(_, _)
WrittenBack(before, after) ==
    CASE before.t = "str" -> after.t = "str" /\ after.s = SanitizedLeaf(before.s)
      [] before.t = "list" ->
            /\ after.t = "list"
            /\ Len(after.items) = Len(before.items)
            /\ \A i \in DOMAIN before.items : WrittenBack(before.items[i], after.items[i])
      [] before.t = "dict" ->
            /\ after.t = "dict"
            /\ Len(after.items) = Len(before.items)
            /\ \A i \in DOMAIN before.items :
                  /\ after.items[i].k = before.items[i].k
                  /\ WrittenBack(before.items[i].v, after.items[i].v)
      [] OTHER -> after = before

ValidJsonCall ==
    /\ ctype = "json"
    /\ json_loads(content).ok
    /\ Len(content) <= config.max_input_characters

\* C2: JSON write-back.  For every valid JSON document, sanitize with format
\* json returns a document with the keys and indices of the input, in which
\* every str leaf holds its own sanitized text (its placeholder where PII was
\* detected in it) and every number, boolean and null is unchanged.
C2_JsonWriteBack ==
    (ValidJsonCall /\ pc # "new")
        => /\ ~out.raised
           /\ json_loads(out.masked_text).ok
           /\ WrittenBack(json_loads(content).v, json_loads(out.masked_text).v)

\* C3: JSON round trip.  For every JSON document whose str leaves hold no
\* placeholder, sanitize returns, and parsing what rehydrate makes of the pair
\* it returned gives the tree of the input document.
C3_JsonRoundTrip ==
    (ValidJsonCall /\ pc \in {"failed", "rehydrated", "rehydrate_failed"})
        => /\ pc = "rehydrated"
           /\ json_loads(restored.text).ok
           /\ json_loads(restored.text).v = json_loads(content).v

SubstitutedValues == {<<out.emitted[i].type, out.emitted[i].text>> : i \in DOMAIN out.emitted}

\* C5: one map entry per distinct value.  The spans of one (kind, original
\* text) pair all hold one placeholder, the map has exactly one entry for the
\* pair, and the map has as many entries as there are distinct pairs.
C5_OneEntryPerValue ==
    (ctype = "text" /\ Returned)
        => /\ \A i \in DOMAIN out.emitted : \A j \in DOMAIN out.emitted :
                  (out.emitted[i].type = out.emitted[j].type
                   /\ out.emitted[i].text = out.emitted[j].text)
                      => out.emitted[i].placeholder = out.emitted[j].placeholder
           /\ \A i \in DOMAIN out.emitted :
                  Cardinality({k \in DOMAIN out.rehydration_map :
                                  /\ out.rehydration_map[k][1] = out.emitted[i].placeholder
                                  /\ out.rehydration_map[k][2] = out.emitted[i].text}) = 1
           /\ Len(out.rehydration_map) = Cardinality(SubstitutedValues)

\* C6: whitelist dominance.  No substituted span covers a character of an
\* occurrence in the content of a term of the configured whitelist.
C6_WhitelistDominance ==
    (ctype = "text" /\ Returned)
        => \A w \in DOMAIN config.whitelist : \A i \in 0..Len(content) :
               MatchAt(content, config.whitelist[w], i)
                   => \A e \in DOMAIN out.emitted :
                          ~Overlaps(out.emitted[e], i, i + Len(config.whitelist[w]))

\* the Luhn checksum of a sequence of digits: from the right, every second
\* digit doubled, and the digits of the products added up
LuhnSum(digits) ==
    LET n == Len(digits)
        doubled(k) == ((2 * k) \div 10) + ((2 * k) % 10)
        at[i \in 0..n] ==
            IF i = 0 THEN 0
            ELSE at[i - 1] + (IF (n - i) % 2 = 1 THEN doubled(DigitVal(digits[i]))
                              ELSE DigitVal(digits[i]))
    IN  at[n]

\* the offsets of the 16-digit sequences of the text that fail the checksum
FailingSequences(text) ==
    {i \in 0..(Len(text) - 16) :
        /\ \A k \in 1..16 : text[i + k] \in Digit
        /\ (i = 0 \/ text[i] \notin Digit)
        /\ (i + 16 = Len(text) \/ text[i + 17] \notin Digit)
        /\ LuhnSum(Slice(text, i, i + 16)) % 10 # 0}

\* C7: Luhn rejection.  For a 16-digit sequence of the input whose Luhn
\* checksum is not 0 mod 10, the regex detector returns no CREDIT_CARD
\* candidate over it and sanitize substitutes no CREDIT_CARD span over it.
C7_LuhnRejection ==
    (ctype = "text" /\ pc # "new")
        => \A i \in FailingSequences(content) :
               /\ \A d \in Range(RegexDetector_detect(content)) :
                      d.type = T_CREDIT_CARD => ~Overlaps(d, i, i + 16)
               /\ \A e \in DOMAIN out.emitted :
                      out.emitted[e].type = T_CREDIT_CARD
                          => ~Overlaps(out.emitted[e], i, i + 16)

\* a failing 16-digit number left alone beside a card number that is substituted
C7_Witness ==
    /\ pc = "done"
    /\ FailingSequences(content) # {}
    /\ \E e \in DOMAIN out.emitted : out.emitted[e].type = T_CREDIT_CARD
    /\ \E i \in FailingSequences(content) :
           Contains(out.masked_text, Slice(content, i, i + 16))

\* C8: confidence gate.  Every candidate NERDetector.detect returns, merged
\* or not, has confidence >= the threshold, and no NER-sourced span of lower
\* confidence than the configured threshold is substituted.
C8_ConfidenceGate ==
    (ctype = "text" /\ pc # "new")
        => /\ \A d \in Range(NERDetector_detect(ner, content, config.confidence_threshold)) :
                  d.confidence >= config.confidence_threshold
           /\ \A d \in Range(out.unique_detections) :
                  d.source = "ner" => d.confidence >= config.confidence_threshold

\* the model scored one entity under the threshold; another one, merged from
\* two entities, is substituted
C8_Witness ==
    /\ pc = "done"
    /\ \E k \in DOMAIN ner.labels :
           /\ ner.labels[k] # "O"
           /\ ner.labels[k][1] = G_PER
           /\ ner.labels[k][2] < config.confidence_threshold
    /\ \E d \in Range(out.unique_detections) : d.source = "ner"
    /\ \E e \in DOMAIN out.emitted : out.emitted[e].type = T_PERSON

NoOutput == out.raised /\ out.masked_text = <<>> /\ out.rehydration_map = <<>>

\* C9: length bound.  On content longer than max_input_characters sanitize
\* raises the ValueError of the length check, whatever the format and whether
\* or not the content parses, and returns nothing; content of exactly
\* max_input_characters is not turned away for its length.
C9_LengthBound ==
    pc # "new"
        => /\ Len(content) > config.max_input_characters
                  => /\ pc = "failed"
                     /\ NoOutput
                     /\ out.exc = "ValueError"
                     /\ out.msg = "Input exceeds maximum length"
           /\ Len(content) = config.max_input_characters
                  => ~(out.raised /\ out.msg = "Input exceeds maximum length")

\* an oversize input that is also invalid JSON has been turned away
C9_Witness ==
    /\ pc = "failed"
    /\ ctype = "json"
    /\ ~json_loads(content).ok
    /\ Len(content) > config.max_input_characters

\* C10: invalid format.  On content that fails JSON decoding (decoding is
\* reached by content within max_input_characters) sanitize with format json
\* raises the ValueError that reports invalid JSON and returns neither a
\* sanitized string nor a map.
C10_InvalidJson ==
    (/\ pc # "new"
     /\ ctype = "json"
     /\ Len(content) <= config.max_input_characters
     /\ ~json_loads(content).ok)
        => /\ pc = "failed"
           /\ NoOutput
           /\ out.exc = "ValueError"
           /\ out.msg = "Invalid JSON"

\* undecodable content of the json format has been turned away
C10_Witness ==
    /\ pc = "failed"
    /\ ctype = "json"
    /\ content # <<>>
    /\ ~json_loads(content).ok
    /\ out.msg = "Invalid JSON"

\* the placeholder grammar <<[A-Z][A-Z0-9_]*_[0-9a-f]{6,8}>>
HexLower == Digit \cup {"a","b","c","d","e","f"}
ConformsToGrammar(key) ==
    /\ StartsWith(key, DefaultPrefix)
    /\ EndsWith(key, DefaultSuffix)
    /\ \E h \in 6..8 :
          LET body == Slice(key, 2, Len(key) - 2)
              n == Len(body)
          IN  /\ Len(key) >= 4 /\ n >= h + 2
              /\ body[1] \in Upper
              /\ \A i \in 2..(n - h - 1) : body[i] \in Upper \cup Digit \cup {"_"}
              /\ body[n - h] = "_"
              /\ \A i \in (n - h + 1)..n : body[i] \in HexLower

MalformedMap(m) ==
    \E i \in DOMAIN m : ~ConformsToGrammar(m[i][1]) \/ ~isinstance_str(m[i][2])

\* C11: malformed map rejection.  When rehydrate has been called with a map
\* one of whose keys does not conform to the placeholder grammar, or one of
\* whose values is not a string, it has raised the malformed-map error and
\* has replaced nothing.
C11_MalformedMapRejection ==
    (RehydrateReturned /\ MalformedMap(out.rehydration_map))
        => /\ pc = "rehydrate_failed"
           /\ restored.exc = "ValueError"
           /\ restored.msg = "Invalid rehydration map format"
           /\ restored.text = <<>>

\* C12: rehydration needs only the map.  When sanitize was configured with a
\* placeholder prefix or suffix of its own and rehydrate has been called,
\* without that configuration, on the pair sanitize returned, rehydrate has
\* succeeded and has given back the original text.
C12_MapAloneSuffices ==
    (/\ RehydrateReturned
     /\ (config.placeholder_prefix # DefaultPrefix \/ config.placeholder_suffix # DefaultSuffix)
     /\ out.rehydration_map # <<>>)
        => (~restored.raised /\ restored.text = content)

\* C13: unknown format.  A sanitize call with a format other than text, json
\* and html has failed with the invalid-configuration error and has produced
\* no output: the content has not been processed under another format.
C13_UnknownFormat ==
    (ctype \notin {"text", "json", "html"} /\ pc # "new")
        => (pc = "failed" /\ NoOutput /\ out.detections = <<>>)

\* the call with the NER detector switched off
RegexOnlyCall == sanitize(content, [config EXCEPT !.enable_ner = FALSE], ctype, NoNer)

C16_ModelCaching == loads <= 1

\* C15: single NER load under concurrency.  When several workers make their
\* first NER-enabled sanitize call concurrently, the loads are serialized, no
\* two workers being inside the model load at once, and once the calls are
\* over exactly one load has been performed.
C15_SingleLoad ==
    /\ Cardinality({w \in DOMAIN workers : workers[w].pc = "loading"}) <= 1
    /\ loads <= 1
    /\ (/\ \A w \in DOMAIN workers : workers[w].pc = "done"
        /\ \E w \in DOMAIN workers : NeedsModel(w))
           => loads = 1

\* the call of worker w, made alone
Alone(w) == sanitize(workers[w].content, config, ctype, workers[w].ner)

ClassFault == pc \in {"class_done", "class_failed"} /\ ner.load = "RuntimeError"

\* C18: privacy-safe degradation.  A sanitize call in which an unexpected
\* failure occurred has raised and has emitted nothing, whether it is a call
\* of core.sanitizer.sanitize that ended in its RuntimeError or a call of
\* Sanitizer.sanitize; it has not returned the input.
C18_PrivacySafeDegradation ==
    /\ (pc = "failed" /\ out.exc = "RuntimeError") => NoOutput
    /\ ClassFault => (pc = "class_failed" /\ NoOutput)


\* C19 (parser identity): for the plain, the JSON and the HTML parser and every
\* document the parser accepts, reconstruct applied to the unchanged output of
\* parse gives back the original document, character for character.
C19_ParserIdentity == pc = "reparsed" => out.masked_text = content

\* the document with every whitespace character taken out
WithoutWhitespace(s) == SelectSeq(s, LAMBDA ch : ch \notin Whitespace)

\* the document C20 describes: the tags as they were written, in their order,
\* and in the place of each non-empty text node its sanitized text
StructurePreserved(c, cfg, nerm) ==
    LET events == HtmlEvents(c)
        node(e) == IF e.kind # "data" \/ Strip(e.data) = <<>> THEN e.raw
                   ELSE sanitize(e.data, cfg, "text", nerm).masked_text
        walk[k \in 0..Len(events)] ==
            IF k = 0 THEN <<>> ELSE walk[k - 1] \o node(events[k])
    IN  walk[Len(events)]

\* C20 (HTML structure preservation): sanitize with format html returns the
\* input's tags, attributes untouched, in their original order, with each
\* non-empty text node replaced by its sanitized text in its original position
\* (compared here up to whitespace).
C20_HtmlStructure ==
    (ctype = "html" /\ Returned) =>
        WithoutWhitespace(out.masked_text)
            = WithoutWhitespace(StructurePreserved(content, config, ner))

\* C21 (detector enable flags): with enable_ner = false the NER detector is
\* neither constructed nor invoked and no NER-sourced candidate is substituted,
\* so a person name stays in the output; with enable_regex = false no
\* regex-sourced candidate is substituted, so an email address stays.
C21_EnableFlags ==
    Returned =>
        /\ ~config.enable_ner =>
              /\ ner_detector(config) = "None"
              /\ loads = 0
              /\ \A i \in DOMAIN out.unique_detections : out.unique_detections[i].source # "ner"
              /\ \A name \in {Name1, Name2} :
                     Contains(content, name) => Contains(out.masked_text, name)
        /\ ~config.enable_regex =>
              /\ regex_detector(config) = "None"
              /\ \A i \in DOMAIN out.unique_detections : out.unique_detections[i].source # "regex"
              /\ \A email \in {Email1, Email2} :
                     Contains(content, email) => Contains(out.masked_text, email)

\* a regex-only call on a text with an email address, which it masks, and a
\* name the NER model would have reported as a person
C21_Witness ==
    /\ pc = "done"
    /\ ~config.enable_ner /\ config.enable_regex
    /\ \E k \in DOMAIN ner.labels :
          ner.labels[k] # "O" /\ ner.labels[k][1] = G_PER
          /\ ner.labels[k][2] >= config.confidence_threshold
    /\ Contains(content, Name1) /\ Contains(out.masked_text, Name1)
    /\ Contains(content, Email1) /\ ~Contains(out.masked_text, Email1)

\* C22 (conflict disjointness): for every list of candidates given to
\* deduplicate_detections, the returned spans [start, end) are pairwise
\* disjoint and sorted by start ascending.
C22_ConflictDisjointness ==
    pc = "resolved" =>
        \A i, j \in DOMAIN out.unique_detections :
            i < j => /\ out.unique_detections[i].start <= out.unique_detections[j].start
                     /\ out.unique_detections[i].end <= out.unique_detections[j].start

\* two overlapping candidates went in, two disjoint ones came out
C22_Witness ==
    /\ pc = "resolved"
    /\ Len(out.unique_detections) = 2
    /\ \E i, j \in DOMAIN out.detections :
          /\ i # j
          /\ out.detections[i].start < out.detections[j].end
          /\ out.detections[j].start < out.detections[i].end

\* C23 (no truncation): every candidate deduplicate_detections returns is one
\* of its input candidates with start, end and text unchanged; a partially
\* overlapping candidate is kept whole or dropped whole, never shortened.
C23_NoTruncation ==
    pc = "resolved" =>
        \A i \in DOMAIN out.unique_detections :
            \E j \in DOMAIN out.detections :
                /\ out.unique_detections[i].start = out.detections[j].start
                /\ out.unique_detections[i].end = out.detections[j].end
                /\ out.unique_detections[i].text = out.detections[j].text

\* the priority C24 gives a kind
priority(kind) ==
    IF kind \in {T_EMAIL, <<"S","S","N">>, T_CREDIT_CARD} THEN 10
    ELSE IF kind \in {T_PHONE, <<"I","P","V","4">>, <<"I","P","V","6">>} THEN 8
    ELSE IF kind \in {T_PERSON, T_ORGANIZATION, T_LOCATION} THEN 5
    ELSE 1

\* C24 (priority resolution): a candidate B that overlaps the last accepted
\* candidate A replaces A if and only if priority(B) > priority(A) and
\* B.end > A.end, and is dropped otherwise.  Stated on the lists <<A, B>> in
\* which A comes first in the order (start ascending, end descending,
\* priority descending) and B overlaps A.
C24_PriorityResolution ==
    (/\ pc \in {"resolved", "class_resolved"}
     /\ Len(out.detections) = 2
     /\ LET A == out.detections[1]
            B == out.detections[2]
        IN  /\ \/ A.start < B.start
               \/ A.start = B.start /\ A.end > B.end
               \/ A.start = B.start /\ A.end = B.end /\ priority(A.type) > priority(B.type)
            /\ B.start < A.end)
    => out.unique_detections =
           IF /\ priority(out.detections[2].type) > priority(out.detections[1].type)
              /\ out.detections[2].end > out.detections[1].end
           THEN <<out.detections[2]>>
           ELSE <<out.detections[1]>>

\* the orders in which the n entries of a map can be taken
Orders(n) == {f \in [1..n -> 1..n] : \A i, j \in 1..n : i # j => f[i] # f[j]}

\* every occurrence of each placeholder replaced by its original, the entries
\* of the map taken in the given order
ReplacedInOrder(text, m, order) ==
    LET step[k \in 0..Len(m)] ==
            IF k = 0 THEN text
            ELSE Join(m[order[k]][2], Split(step[k - 1], m[order[k]][1]))
    IN  step[Len(m)]

\* C25 (rehydration replaces everything): rehydrate_text replaces every
\* occurrence of every placeholder of the map by its original, taking the
\* placeholders in descending order of length; a text without placeholders
\* and any text under an empty map come back unchanged.
C25_ReplacesEverything ==
    pc = "rehydrated" =>
        /\ \E order \in Orders(Len(out.rehydration_map)) :
              /\ \A i, j \in DOMAIN out.rehydration_map :
                     i < j => Len(out.rehydration_map[order[i]][1])
                                  >= Len(out.rehydration_map[order[j]][1])
              /\ restored.text = ReplacedInOrder(out.masked_text, out.rehydration_map, order)
        /\ out.rehydration_map = <<>> => restored.text = out.masked_text
        /\ (\A k \in DictKeys(out.rehydration_map) : ~Contains(out.masked_text, k))
              => restored.text = out.masked_text

\* the shorter placeholder was put into the map first and begins the longer
\* one, which occurs in the text and was replaced whole
C25_Witness ==
    /\ pc = "rehydrated"
    /\ Len(out.rehydration_map) = 2
    /\ Len(out.rehydration_map[1][1]) < Len(out.rehydration_map[2][1])
    /\ StartsWith(out.rehydration_map[2][1], out.rehydration_map[1][1])
    /\ out.masked_text = out.rehydration_map[2][1]
    /\ restored.text = out.rehydration_map[2][2]
    /\ restored.text # out.masked_text

\* C26 (rehydration is independent of insertion order): two maps that hold
\* the same placeholder-to-original pairs, inserted in different orders, give
\* the same string for every masked string.
C26_InsertionOrder ==
    pc = "rehydrated" =>
        \A order \in Orders(Len(out.rehydration_map)) :
            rehydrate(out.masked_text,
                      [i \in DOMAIN out.rehydration_map |-> out.rehydration_map[order[i]]]).text
                = restored.text

\* the text read from left to right, each span given way to its placeholder
Framed(text, spans) ==
    LET at(i) == {k \in DOMAIN spans : spans[k].start = i}
        placeholder(d) == DefaultPrefix \o d.type \o <<"_">> \o sha256_hex8(d.text) \o DefaultSuffix
        from[i \in 0..Len(text)] ==
            IF i = Len(text) THEN <<>>
            ELSE IF at(i) # {}
            THEN placeholder(spans[CHOOSE k \in at(i) : TRUE])
                     \o from[spans[CHOOSE k \in at(i) : TRUE].end]
            ELSE <<CharAt(text, i)>> \o from[i + 1]
    IN  from[0]

\* C27 (substitution frame): on pairwise disjoint spans, listed in any order,
\* mask_text returns the text with each span replaced by its placeholder and
\* every character outside the spans unchanged and in place; on an empty list
\* it returns the text unchanged and an empty map.
C27_SubstitutionFrame ==
    pc = "masked" =>
        /\ out.masked_text = Framed(out.text, out.detections)
        /\ out.detections = <<>> => (out.masked_text = out.text /\ out.rehydration_map = <<>>)

\* two spans listed in the order of the text, with a character left between
C27_Witness ==
    /\ pc = "masked"
    /\ Len(out.detections) = 2
    /\ out.detections[1].end < out.detections[2].start
    /\ Len(out.rehydration_map) = 2
    /\ Contains(out.masked_text, <<">", ">", "b", "<", "<">>)

\* the candidates NERDetector.detect has before it merges: the entities of the
\* model that are of a detected kind and reach the threshold, kinds normalized
NerCandidates(nerm, text, threshold) ==
    LET entities == NerPipeline(nerm, text)
        kept == SelectSeq(entities, LAMBDA e :
                    /\ \E k \in DOMAIN DETECTED_ENTITIES :
                          Contains(UpperStr(e.entity_group), DETECTED_ENTITIES[k])
                    /\ e.score >= threshold)
    IN  [i \in DOMAIN kept |->
            [type |-> _normalize_entity_type(UpperStr(kept[i].entity_group)),
             start |-> kept[i].start, end |-> kept[i].end, confidence |-> kept[i].score]]

\* candidate i + 1 is to be merged with candidate i
Mergeable(K, i) == K[i + 1].type = K[i].type /\ K[i + 1].start - K[i].end <= 1

\* the NER-sourced candidates a call found
NerFound == SelectSeq(out.detections, LAMBDA d : d.source = "ner")

\* C28 (NER merge): NERDetector.detect merges two candidates of the same
\* normalized kind exactly when the gap between the end of the first and the
\* start of the next is at most 1 character; a merged candidate spans from
\* the first start to the last end with the maximum of the confidences;
\* candidates of different kinds or with a larger gap are never merged.
C28_NerMerge ==
    (Returned /\ config.enable_ner /\ ~ner.fails /\ config.whitelist = <<>> /\ ctype = "text")
    => LET K == NerCandidates(ner, out.text, config.confidence_threshold)
           firsts == {i \in DOMAIN K : i = 1 \/ ~Mergeable(K, i - 1)}
           lasts == {i \in DOMAIN K : i = Len(K) \/ ~Mergeable(K, i)}
           nth(S, m) == CHOOSE i \in S : Cardinality({j \in S : j < i}) = m - 1
       IN  /\ Len(NerFound) = Cardinality(firsts)
           /\ \A m \in DOMAIN NerFound :
                  /\ NerFound[m].type = K[nth(firsts, m)].type
                  /\ NerFound[m].start = K[nth(firsts, m)].start
                  /\ NerFound[m].end = K[nth(lasts, m)].end
                  /\ \A i \in nth(firsts, m)..nth(lasts, m) :
                         NerFound[m].confidence >= K[i].confidence
                  /\ \E i \in nth(firsts, m)..nth(lasts, m) :
                         NerFound[m].confidence = K[i].confidence

\* two names one character apart were merged, the first with the lower score
C28_Witness ==
    /\ pc = "done" /\ config.enable_ner /\ ~ner.fails /\ config.whitelist = <<>>
    /\ config.confidence_threshold < 80
    /\ Len(NerCandidates(ner, out.text, config.confidence_threshold)) = 2
    /\ Len(NerFound) = 1
    /\ NerFound[1].confidence = 90
    /\ NerCandidates(ner, out.text, config.confidence_threshold)[1].confidence = 80

\* C29 (candidate well-formedness): every candidate that reaches the
\* placeholder synthesizer in a sanitize call has end > start and
\* text = segment[start..end], so the value the rehydration map holds for a
\* placeholder is exactly the substring the placeholder replaced.
C29_WellFormedCandidates ==
    Returned =>
        \A i \in DOMAIN out.emitted :
            /\ out.emitted[i].end > out.emitted[i].start
            /\ out.emitted[i].text = Slice(out.text, out.emitted[i].start, out.emitted[i].end)
            /\ DictValue(out.rehydration_map, out.emitted[i].placeholder)
                   = Slice(out.text, out.emitted[i].start, out.emitted[i].end)

\* where leaf i begins in the text parse joined from the leaves
LeafOffset(leaves, i) ==
    LET upto[k \in 0..Len(leaves)] ==
            IF k = 0 THEN 0 ELSE upto[k - 1] + Len(leaves[k].text) + 1
    IN  upto[i - 1]

\* C30 (JSON segment independence): in a sanitize call with format json every
\* string leaf is detected and masked as its own segment: no candidate span
\* crosses the boundary between two leaves, and the masked segments handed to
\* reconstruct are as many as the leaves parse extracted, in their order,
\* also when a leaf contains a newline character.
C30_JsonSegments ==
    (ctype = "json" /\ Returned /\ _extract_texts(out.parsed, <<>>) # <<>>)
    => LET leaves == _extract_texts(out.parsed, <<>>)
           segments == Split(mask_text(config.placeholder_prefix, config.placeholder_suffix,
                                       out.text, out.unique_detections).masked_text,
                             <<NL>>)
       IN  /\ Len(segments) = Len(leaves)
           /\ \A d \in DOMAIN out.unique_detections :
                  \E i \in DOMAIN leaves :
                      /\ LeafOffset(leaves, i) <= out.unique_detections[d].start
                      /\ out.unique_detections[d].end
                             <= LeafOffset(leaves, i) + Len(leaves[i].text)

============================================================================
